---- MODULE Spec2Model ----
(***************************************************************************)
(* Model of the add-on marketplace backend: the version upload flow        *)
(* (src/src/api/version.py), the add-on handlers and the catalogue query   *)
(* (src/src/api/addon.py), the like handlers (src/src/api/userlikes.py),   *)
(* the list of liked add-ons (src/src/api/user.py) and registration,       *)
(* login and logout (src/src/api/auth.py, src/src/middlewares/auth.py)     *)
(* over the relational store and the files directory.                      *)
(* Every `await` of a handler is a scheduling point of the                 *)
(* event loop, so a handler is split into one action per await; the code   *)
(* between two awaits runs atomically.  Every SELECT reads the committed   *)
(* rows at the moment it executes (READ COMMITTED).                        *)
(*                                                                         *)
(* Text is modelled as a sequence of one-character strings; a SHA-256      *)
(* digest is one opaque symbol that is different for different contents.   *)
(* A file content is a record [data, len]: the identity of its bytes and   *)
(* their number.                                                           *)
(***************************************************************************)
EXTENDS Integers, Sequences, FiniteSets, TLC

\* ------------------------------------------------------------------ bounds
\* total number of requests issued in one behaviour
MaxRequests == 2

\* total number of like, unlike and like count requests in one behaviour
MaxLikeRequests == 3

\* total number of increment_download_count requests in one behaviour
MaxDownloads == 3

\* the requests to the handlers of api/auth.py that are followed
MaxAuthRequests == 3

\* ------------------------------------------------------- program constants
MAX_FILE_SIZE_BYTES == 15 * 1024 * 1024
FILES_DIR == <<"files">>

HTTP_200_OK == 200
HTTP_201_CREATED == 201
HTTP_204_NO_CONTENT == 204
HTTP_400_BAD_REQUEST == 400
HTTP_401_UNAUTHORIZED == 401
HTTP_403_FORBIDDEN == 403
HTTP_404_NOT_FOUND == 404
HTTP_409_CONFLICT == 409
HTTP_500_INTERNAL_SERVER_ERROR == 500

\* --------------------------------------------------------------- universes
Procs == {"p1", "p2"}
Users == {"u1", "u2"}
AddonIds == {"a1", "a2", "a3"}

\* version labels of the requests
Labels == {<<"a">>, <<"A">>, <<"b">>}

\* file contents: two ordinary ones, the empty one and one that is one byte
\* longer than the limit
ContentX == [data |-> "x", len |-> 3]
ContentY == [data |-> "y", len |-> 3]
ContentEmpty == [data |-> "", len |-> 0]
ContentBig == [data |-> "big", len |-> MAX_FILE_SIZE_BYTES + 1]

None == "None"

\* the UploadFile objects of the requests.  UploadFile.size is Optional[int]:
\* <<>> is None, <<n>> is the integer n, the number of bytes received
UploadFiles ==
    { [content |-> ContentX, size |-> <<3>>, filename |-> <<"m", ".", "j">>],
      [content |-> ContentX, size |-> <<3>>, filename |-> <<"n", ".", "j">>],
      [content |-> ContentX, size |-> <<3>>, filename |-> <<"n", ".", "z">>],
      [content |-> ContentY, size |-> <<3>>, filename |-> <<"m">>],
      [content |-> ContentEmpty, size |-> <<0>>, filename |-> <<"m", ".", "j">>],
      [content |-> ContentBig, size |-> <<MAX_FILE_SIZE_BYTES + 1>>, filename |-> <<"m", ".", "j">>],
      [content |-> ContentBig, size |-> <<>>, filename |-> <<"m", ".", "j">>] }

NoFile == [content |-> [data |-> "", len |-> 0], size |-> <<>>, filename |-> <<>>]

\* the form of one add_new_addon_version request, with the verified caller
UploadRequests ==
    [addon_uuid : AddonIds, user : Users, version : Labels, file : UploadFiles]

NoReq == [addon_uuid |-> None, user |-> None, version |-> <<>>, file |-> NoFile]
NoLoc == [file_hash |-> "", file_path_on_disk |-> <<>>, download_url |-> <<>>]
NoResp == [status |-> 0, detail |-> ""]

\* the uuids uuid4 hands out to the add-ons created by create_addon
NewAddonIds == {"a3", "a4"}

\* the tasks serving increment_download_count requests
DlProcs == {"d1", "d2", "d3"}

\* models/addon.py lines 32-33: the default of publish_date and update_date is
\* the value datetime.now() had when the class body ran
ImportTime == 1

\* text padded with dots to the least length the request schema accepts
RECURSIVE Pad(_, _)
Pad(s, n) == IF Len(s) >= n THEN s ELSE Pad(s \o <<".">>, n)

\* AddOnCreate / AddOnUpdate: name has 3..128 characters, short_description
\* 10..256, description at least 20
AddonNames == {<<"a", "b", "a">>, <<"A", "b", "a">>, <<"b", "b", "a">>, <<"B", "b", "a">>}
ShortDescriptions == {Pad(<<"a", "b">>, 10), Pad(<<"B", "b">>, 10)}

\* the row AddOn(**addon_data.model_dump(), user_uuid=...) besides uuid and
\* user_uuid, with the column defaults of models/addon.py
new_addon(name, type, short_description, description) ==
    [name |-> name,
     type |-> type,
     short_description |-> short_description,
     description |-> description,
     downloads |-> 0,
     publish_date |-> ImportTime,
     update_date |-> ImportTime]

\* a field of AddOnUpdate the request did not set (exclude_unset drops it)
Unset == <<>>

\* op: the handler; data: the request body; db: the instance the handler loaded
Call(op, addon_uuid, user, data, db) ==
    [op |-> op, addon_uuid |-> addon_uuid, user |-> user, data |-> data, db |-> db]

NoCall == Call(None, None, None, <<>>, <<>>)
NoDl == [pc |-> "idle", addon_uuid |-> None, downloads |-> 0, status |-> 0]
NoRes == [items |-> <<>>, total_count |-> 0]

\* ------------------------------------------------------------------- state
VARIABLES
    addons,     \* table addons: uuid -> user_uuid of the owner
    versions,   \* table versions: set of rows
    files,      \* the file system: path -> "partial" | "complete"
    pc,         \* per request task: the await it is suspended at
    req,        \* per request task: the request parameters
    loc,        \* per request task: file_hash, file_path_on_disk, download_url
    newv,       \* per request task: uuid of new_version, 0 before it exists
    fail,       \* per request task: the exception caught by the insert's try
    resp,       \* per request task: the response of its last request
    io,         \* per request task: what the current request has done so far
    nuuid,      \* number of uuids handed out
    nreq,       \* number of requests issued
    call,       \* per request task: handler, add-on and verified caller of its request
    addon_cols, \* table addons: uuid -> the other columns of the row
    likes,      \* table user_likes: set of rows
    liked,      \* history: the (user, add-on) pairs with a committed like and no unlike answered 204 since
    dl,         \* per download task: its await and the AddOn instance it loaded
    qres,       \* per request task: the body of the last answer to a read request
    users,      \* table users: set of rows
    jwt         \* history: the access tokens issued, expired, and presented to a logout answered 200

vars == <<addons, versions, files, pc, req, loc, newv, fail, resp, io, nuuid, nreq,
          call, addon_cols, likes, liked, dl, qres, users, jwt>>

\* what the handlers outside api/auth.py leave alone
auth_frame == <<users, jwt>>

\* ------------------------------------------------------------ pure helpers
\* str.lower() / SQL lower() on the characters the labels are made of
LowerChar(c) ==
    CASE c = "A" -> "a"
      [] c = "B" -> "b"
      [] OTHER -> c

lower(s) == [i \in 1..Len(s) |-> LowerChar(s[i])]

\* str.rfind, 1-based, 0 when the character does not occur
rfind(s, ch) ==
    LET hits == {i \in 1..Len(s) : s[i] = ch}
    IN IF hits = {} THEN 0 ELSE CHOOSE i \in hits : \A j \in hits : j <= i

\* os.path.splitext(p)[1]: the extension starts at the last dot of the last
\* path component, unless that component has only dots before it
splitext_ext(p) ==
    LET sepIndex == rfind(p, "/")
        dotIndex == rfind(p, ".")
    IN IF dotIndex > sepIndex
          /\ \E filenameIndex \in (sepIndex + 1)..(dotIndex - 1) : p[filenameIndex] # "."
       THEN SubSeq(p, dotIndex, Len(p))
       ELSE <<>>

\* hashlib.sha256(file_content).hexdigest(): one symbol per distinct content
sha256_hexdigest(content) == "sha256(" \o content.data \o ")"

\* file_extension of lines 179-183
file_extension(file) ==
    IF file.filename # <<>> /\ splitext_ext(file.filename) # <<>>
    THEN splitext_ext(file.filename)
    ELSE <<>>

\* the name on disk built from the whole original file name
file_name_on_disk_whole_name(file) == <<sha256_hexdigest(file.content)>> \o file.filename

\* file_name_on_disk = f"{file_hash}{file_extension}"
file_name_on_disk(file) == <<sha256_hexdigest(file.content)>> \o file_extension(file)

\* os.path.join(FILES_DIR, file_name_on_disk)
path_join(dir, name) == dir \o <<"/">> \o name

\* download_url = f"/files/{file_name_on_disk}"
download_url_of(name) == <<"/", "files", "/">> \o name

\* the file a download URL is served from
PathOfUrl(url) == SubSeq(url, 2, Len(url))

exists(path) == path \in DOMAIN files

Response(status, detail) == [status |-> status, detail |-> detail]

\* ------------------------------------------------------- users and tokens
\* werkzeug generate_password_hash: a value the password cannot be read from
\* and that check_password_hash matches with that password only
generate_password_hash(password) == [hash_of |-> password]

\* models/user.py lines 20-33: User(username, email, password) with the uuid
\* the default gives it
new_user(uuid, username, email, password) ==
    [uuid |-> uuid, username |-> username, email |-> email,
     password_hash |-> generate_password_hash(password)]

\* api/auth.py lines 33-37 and 52-56: validate_email
validate_email(v) == lower(v)

\* the bodies of the register requests after validation: user names, e-mail
\* addresses and passwords that pass the validators of RegisterModel
RegisterModels ==
    { [username |-> username, email |-> validate_email(email), password |-> password] :
        username \in { <<"a", "b", "a">>, <<"A", "b", "a">>, <<"c", "c", "c">> },
        email \in { <<"a", "@", "b">>, <<"A", "@", "b">>, <<"c", "@", "b">> },
        password \in { "password1", "password2" } }

\* the bodies of the login requests after validation
LoginModels ==
    { [email |-> user.email, password |-> user.password] : user \in RegisterModels }

\* the uuids uuid4 hands out to the users created by register
NewUserIds == {"u3", "u4"}

\* the users table at the start: the owners of the two add-ons
InitialUsers ==
    { new_user("u1", <<"a", "b", "a">>, <<"a", "@", "b">>, "password1"),
      new_user("u2", <<"b", "a", "b">>, <<"b", "@", "b">>, "password2") }

\* a request without a valid Authorization header; a token is the claims sub
\* and jti of the JWT
NoToken == [sub |-> None, jti |-> 0]

\* settings.py line 49
authjwt_token_location == {"headers"}

\* ------------------------------------------------------------------- Init
Init ==
    /\ addons = [a \in {"a1", "a2"} |-> IF a = "a1" THEN "u1" ELSE "u2"]
    /\ versions = {}
    /\ files = <<>>
    /\ pc = [p \in Procs |-> "idle"]
    /\ req = [p \in Procs |-> NoReq]
    /\ loc = [p \in Procs |-> NoLoc]
    /\ newv = [p \in Procs |-> 0]
    /\ fail = [p \in Procs |-> ""]
    /\ resp = [p \in Procs |-> NoResp]
    /\ io = [p \in Procs |-> {}]
    /\ nuuid = 0
    /\ nreq = 0
    /\ call = [p \in Procs |-> NoCall]
    /\ addon_cols = [a \in {"a1", "a2"} |->
          IF a = "a1"
          THEN new_addon(<<"a", "b", "a">>, "mod", Pad(<<"a", "b">>, 10), Pad(<<"b", "a">>, 20))
          ELSE new_addon(<<"b", "a", "b">>, "shader", Pad(<<"B", "b">>, 10), Pad(<<"a", "a">>, 20))]
    /\ likes = {}
    /\ liked = {}
    /\ dl = [d \in DlProcs |-> NoDl]
    /\ qres = [p \in Procs |-> NoRes]
    /\ users = InitialUsers
    /\ jwt = [issued |-> {}, expired |-> {}, logged_out |-> {}]

\* addon.py lines 28-39: the fields of AddOnResponse; none has a default
AddOnResponse_fields ==
    {"uuid", "user_uuid", "username", "name", "type", "short_description",
     "description", "downloads", "publish_date", "update_date", "likes_count"}

\* AddOnResponse.model_validate on a dict with these keys: a missing field
\* raises ValidationError
model_validate(keys) == AddOnResponse_fields \subseteq keys

\* the request task returns or raises: the response goes out
Finish(p, response) ==
    /\ pc' = [pc EXCEPT ![p] = "idle"]
    /\ resp' = [resp EXCEPT ![p] = response]

\* the request task goes on to its next await
Goto(p, label) ==
    /\ pc' = [pc EXCEPT ![p] = label]
    /\ UNCHANGED resp

\* ------------------------------------------------- add_new_addon_version
\* lines 151-156: the add-on is selected, then the 404 and 403 checks
addon_check(r) ==
    IF r.addon_uuid \notin DOMAIN addons
    THEN Response(HTTP_404_NOT_FOUND, "Addon not found.")
    ELSE IF addons[r.addon_uuid] # r.user
    THEN Response(HTTP_403_FORBIDDEN, "Insufficient rights: You are not the author of this addon.")
    ELSE NoResp

\* the label select comparing the labels as they are, without lower()
existing_version_by_num_exact(addon_uuid, version) ==
    \E v \in versions : v.addon_uuid = addon_uuid /\ v.version = version

\* lines 158-164: a version of this add-on with the same lower-cased label
existing_version_by_num(addon_uuid, version) ==
    \E v \in versions : v.addon_uuid = addon_uuid /\ lower(v.version) = lower(version)

\* lines 169-175: the size check on file.size, then the empty check on the bytes
file_check(file) ==
    IF file.size # <<>> /\ file.size[1] > MAX_FILE_SIZE_BYTES
    THEN Response(HTTP_400_BAD_REQUEST, "File size exceeds 15 MB")
    ELSE IF file.content.len = 0
    THEN Response(HTTP_400_BAD_REQUEST, "The uploaded file is empty.")
    ELSE NoResp

\* the select by hash comparing the wrong column
existing_version_by_hash_wrong_column(file_hash) ==
    \E v \in versions : v.download_url = <<file_hash>>

\* lines 190-193
existing_version_by_hash(file_hash) ==
    \E v \in versions : v.file_hash = file_hash

\* lines 196-199
existing_version_by_url(download_url) ==
    \E v \in versions : v.download_url = download_url

\* lines 211-217
new_version(p, uuid) ==
    [uuid |-> uuid,
     addon_uuid |-> req[p].addon_uuid,
     version |-> req[p].version,
     download_url |-> loc[p].download_url,
     file_hash |-> loc[p].file_hash]

\* lines 138-156: a request with a verified caller reaches the handler; the
\* select of the add-on executes; existence and ownership checks
Upload_CheckAddon(p) ==
    /\ pc[p] = "idle"
    /\ nreq < MaxRequests
    /\ nreq' = nreq + 1
    /\ \E r \in UploadRequests :
        /\ req' = [req EXCEPT ![p] = r]
        /\ call' = [call EXCEPT ![p] =
              Call("add_new_addon_version", r.addon_uuid, r.user, <<>>, <<>>)]
        /\ IF addon_check(r) # NoResp
           THEN Finish(p, addon_check(r))
           ELSE /\ pc' = [pc EXCEPT ![p] = "label"]
                /\ resp' = [resp EXCEPT ![p] = NoResp]
    /\ loc' = [loc EXCEPT ![p] = NoLoc]
    /\ newv' = [newv EXCEPT ![p] = 0]
    /\ fail' = [fail EXCEPT ![p] = ""]
    /\ io' = [io EXCEPT ![p] = {}]
    /\ UNCHANGED <<addons, versions, files, nuuid>>
    /\ UNCHANGED <<addon_cols, likes, liked, dl, qres>>
    /\ UNCHANGED auth_frame

\* lines 158-165: the label select executes and its result is checked
Upload_CheckLabel(p) ==
    /\ pc[p] = "label"
    /\ IF existing_version_by_num(req[p].addon_uuid, req[p].version)
       THEN Finish(p, Response(HTTP_400_BAD_REQUEST, "Version already exists for this addon."))
       ELSE Goto(p, "read")
    /\ UNCHANGED <<addons, versions, files, req, loc, newv, fail, io, nuuid, nreq>>
    /\ UNCHANGED <<call, addon_cols, likes, liked, dl, qres>>
    /\ UNCHANGED auth_frame

\* lines 167-188: file.read() returns; size and emptiness checks; the hash,
\* the name on disk, the path and the URL are computed
Upload_ReadFile(p) ==
    /\ pc[p] = "read"
    /\ LET file == req[p].file IN
       IF file_check(file) # NoResp
       THEN /\ Finish(p, file_check(file))
            /\ io' = [io EXCEPT ![p] = @ \cup {"read"}]
            /\ UNCHANGED loc
       ELSE /\ Goto(p, "hash")
            /\ io' = [io EXCEPT ![p] = @ \cup {"read", "hashed"}]
            /\ loc' = [loc EXCEPT ![p] =
                  [file_hash |-> sha256_hexdigest(file.content),
                   file_path_on_disk |-> path_join(FILES_DIR, file_name_on_disk(file)),
                   download_url |-> download_url_of(file_name_on_disk(file))]]
    /\ UNCHANGED <<addons, versions, files, req, newv, fail, nuuid, nreq>>
    /\ UNCHANGED <<call, addon_cols, likes, liked, dl, qres>>
    /\ UNCHANGED auth_frame

\* lines 190-194: the select by hash executes and its result is checked
Upload_CheckHash(p) ==
    /\ pc[p] = "hash"
    /\ IF existing_version_by_hash(loc[p].file_hash)
       THEN Finish(p, Response(HTTP_400_BAD_REQUEST, "A file with this hash has already been downloaded."))
       ELSE Goto(p, "url")
    /\ UNCHANGED <<addons, versions, files, req, loc, newv, fail, io, nuuid, nreq>>
    /\ UNCHANGED <<call, addon_cols, likes, liked, dl, qres>>
    /\ UNCHANGED auth_frame

\* lines 196-200: the select by URL executes and its result is checked
Upload_CheckUrl(p) ==
    /\ pc[p] = "url"
    /\ IF existing_version_by_url(loc[p].download_url)
       THEN Finish(p, Response(HTTP_400_BAD_REQUEST, "The URL for the download is already in use."))
       ELSE Goto(p, "open")
    /\ UNCHANGED <<addons, versions, files, req, loc, newv, fail, io, nuuid, nreq>>
    /\ UNCHANGED <<call, addon_cols, likes, liked, dl, qres>>
    /\ UNCHANGED auth_frame

\* the file system after path was given the state st
with_file(path, st) ==
    [q \in DOMAIN files \cup {path} |-> IF q = path THEN st ELSE files[q]]

\* the file system after path was removed
without_file(path) ==
    [q \in DOMAIN files \ {path} |-> files[q]]

\* lines 202-204, 206-209: makedirs and aiofiles.open(path, "wb"): the file is
\* created or truncated; when either raises, the handler answers 500
Upload_OpenFile(p) ==
    /\ pc[p] = "open"
    /\ \E ok \in BOOLEAN :
        IF ok
        THEN /\ files' = with_file(loc[p].file_path_on_disk, "partial")
             /\ io' = [io EXCEPT ![p] = @ \cup {"created"}]
             /\ Goto(p, "write")
        ELSE /\ Finish(p, Response(HTTP_500_INTERNAL_SERVER_ERROR, "Failed to save the file"))
             /\ UNCHANGED <<files, io>>
    /\ UNCHANGED <<addons, versions, req, loc, newv, fail, nuuid, nreq>>
    /\ UNCHANGED <<call, addon_cols, likes, liked, dl, qres>>
    /\ UNCHANGED auth_frame

\* lines 205-209: f.write(file_content) and the close of the file; when the
\* write raises, the except clauses answer 500 and do nothing else
Upload_WriteFile(p) ==
    /\ pc[p] = "write"
    /\ \E ok \in BOOLEAN :
        IF ok
        THEN /\ files' = with_file(loc[p].file_path_on_disk, "complete")
             /\ io' = [io EXCEPT ![p] = @ \cup {"written"}]
             /\ Goto(p, "commit")
        ELSE /\ Finish(p, Response(HTTP_500_INTERNAL_SERVER_ERROR, "Failed to save the file"))
             /\ io' = [io EXCEPT ![p] = @ \cup {"write_failed"}]
             /\ UNCHANGED files
    /\ UNCHANGED <<addons, versions, req, loc, newv, fail, nuuid, nreq>>
    /\ UNCHANGED <<call, addon_cols, likes, liked, dl, qres>>
    /\ UNCHANGED auth_frame

\* what the store refuses: models/versions.py declares the primary key and the
\* foreign key to addons.uuid, and no unique constraint
insert_refused(row) ==
    row.addon_uuid \notin DOMAIN addons

\* lines 219-221, 223, 231: session.add(new_version) and commit; the commit
\* inserts the row, or raises
Upload_Commit(p) ==
    /\ pc[p] = "commit"
    /\ nuuid' = nuuid + 1
    /\ newv' = [newv EXCEPT ![p] = nuuid + 1]
    /\ \E outcome \in {"ok", "ValueError", "Exception"} :
        IF outcome = "ok" /\ ~insert_refused(new_version(p, nuuid + 1))
        THEN /\ versions' = versions \cup {new_version(p, nuuid + 1)}
             /\ io' = [io EXCEPT ![p] = @ \cup {"inserted"}]
             /\ UNCHANGED fail
             /\ Goto(p, "refresh")
        ELSE /\ fail' = [fail EXCEPT ![p] = IF outcome = "ok" THEN "Exception" ELSE outcome]
             /\ io' = [io EXCEPT ![p] = @ \cup {"commit_failed"}]
             /\ UNCHANGED versions
             /\ Goto(p, "rollback")
    /\ UNCHANGED <<addons, files, req, loc, nreq>>
    /\ UNCHANGED <<call, addon_cols, likes, liked, dl, qres>>
    /\ UNCHANGED auth_frame

\* lines 222, 231, 240: session.refresh(new_version) returns and the handler
\* answers 201, or raises inside the same try
Upload_Refresh(p) ==
    /\ pc[p] = "refresh"
    /\ \E ok \in BOOLEAN :
        IF ok
        THEN /\ Finish(p, Response(HTTP_201_CREATED, "VersionResponse"))
             /\ UNCHANGED <<fail, io>>
        ELSE /\ fail' = [fail EXCEPT ![p] = "Exception"]
             /\ io' = [io EXCEPT ![p] = @ \cup {"refresh_failed"}]
             /\ Goto(p, "rollback")
    /\ UNCHANGED <<addons, versions, files, req, loc, newv, nuuid, nreq>>
    /\ UNCHANGED <<call, addon_cols, likes, liked, dl, qres>>
    /\ UNCHANGED auth_frame

\* a rollback that forgets the written file
remove_written_file_forgotten(p, removed) == UNCHANGED <<files, io>>

\* lines 225-229 and 233-237: os.path.exists, os.remove and the warning that
\* is printed when os.remove raises OSError
remove_written_file(p, removed) ==
    IF loc[p].file_path_on_disk # <<>> /\ exists(loc[p].file_path_on_disk)
    THEN IF removed
         THEN /\ files' = without_file(loc[p].file_path_on_disk)
              /\ io' = [io EXCEPT ![p] = @ \cup {"removed"}]
         ELSE /\ io' = [io EXCEPT ![p] = @ \cup {"warning"}]
              /\ UNCHANGED files
    ELSE UNCHANGED <<files, io>>

\* lines 223-238: session.rollback() returns; the written file is removed and
\* the handler answers 400 (ValueError) or 500
Upload_Rollback(p) ==
    /\ pc[p] = "rollback"
    /\ \E removed \in BOOLEAN : remove_written_file(p, removed)
    /\ IF fail[p] = "ValueError"
       THEN Finish(p, Response(HTTP_400_BAD_REQUEST, "str(e)"))
       ELSE Finish(p, Response(HTTP_500_INTERNAL_SERVER_ERROR, "Failed to add a new version."))
    /\ UNCHANGED <<addons, versions, req, loc, newv, fail, nuuid, nreq>>
    /\ UNCHANGED <<call, addon_cols, likes, liked, dl, qres>>
    /\ UNCHANGED auth_frame

Upload(p) ==
    \/ Upload_CheckAddon(p)
    \/ Upload_CheckLabel(p)
    \/ Upload_ReadFile(p)
    \/ Upload_CheckHash(p)
    \/ Upload_CheckUrl(p)
    \/ Upload_OpenFile(p)
    \/ Upload_WriteFile(p)
    \/ Upload_Commit(p)
    \/ Upload_Refresh(p)
    \/ Upload_Rollback(p)

\* ---------------------------------------------------- delete_addon_version
\* line 384 of version.py and line 416 of addon.py: session is an AsyncSession,
\* whose delete() is a coroutine function.  The handlers call it without await:
\* the coroutine object is dropped, no instance is marked as deleted and the
\* commit that follows has nothing to flush.  The result is the rows left in
\* the table.
session_delete(rows, gone) == rows

\* the answer of a handler that runs as one step
Answer(p, response) ==
    /\ Finish(p, response)
    /\ req' = [req EXCEPT ![p] = NoReq]
    /\ loc' = [loc EXCEPT ![p] = NoLoc]
    /\ newv' = [newv EXCEPT ![p] = 0]
    /\ fail' = [fail EXCEPT ![p] = ""]
    /\ io' = [io EXCEPT ![p] = {}]

\* version.py lines 361-390, run as one request without other requests in
\* between: 404 / 403 / 404, then delete and commit, then 204
delete_addon_version(p) ==
    /\ pc[p] = "idle"
    /\ nreq < MaxRequests
    /\ nreq' = nreq + 1
    /\ \E addon_uuid \in AddonIds, version_uuid \in 1..(nuuid + 1), user \in Users :
        LET version_to_delete ==
                {v \in versions : v.addon_uuid = addon_uuid /\ v.uuid = version_uuid}
        IN /\ call' = [call EXCEPT ![p] =
                 Call("delete_addon_version", addon_uuid, user, <<version_uuid>>, <<>>)]
           /\ IF addon_uuid \notin DOMAIN addons
              THEN /\ Answer(p, Response(HTTP_404_NOT_FOUND, "Addon not found."))
                   /\ UNCHANGED versions
              ELSE IF addons[addon_uuid] # user
              THEN /\ Answer(p, Response(HTTP_403_FORBIDDEN, "Insufficient rights: You are not the author of this addon."))
                   /\ UNCHANGED versions
              ELSE IF version_to_delete = {}
              THEN /\ Answer(p, Response(HTTP_404_NOT_FOUND, "No version of the addon was found."))
                   /\ UNCHANGED versions
              ELSE \E committed \in BOOLEAN :
                   IF committed
                   THEN /\ versions' = session_delete(versions, version_to_delete)
                        /\ Answer(p, Response(HTTP_204_NO_CONTENT, ""))
                   ELSE /\ Answer(p, Response(HTTP_500_INTERNAL_SERVER_ERROR, "Failed to remove version."))
                        /\ UNCHANGED versions
    /\ UNCHANGED <<addons, files, nuuid>>
    /\ UNCHANGED <<addon_cols, likes, liked, dl, qres>>
    /\ UNCHANGED auth_frame

\* addon.py lines 393-419, run as one request without other requests in
\* between: 404 / 403, then delete and commit, then 204.  The cascade of the
\* relationships (models/addon.py lines 35-37) would take the versions and
\* the likes of the add-on with it
delete_addon(p) ==
    /\ pc[p] = "idle"
    /\ nreq < MaxRequests
    /\ nreq' = nreq + 1
    /\ \E addon_uuid \in AddonIds, user \in Users :
        /\ call' = [call EXCEPT ![p] = Call("delete_addon", addon_uuid, user, <<>>, <<>>)]
        /\ IF addon_uuid \notin DOMAIN addons
           THEN /\ Answer(p, Response(HTTP_404_NOT_FOUND, "Addon not found."))
                /\ UNCHANGED <<addons, addon_cols, versions, likes>>
           ELSE IF addons[addon_uuid] # user
           THEN /\ Answer(p, Response(HTTP_403_FORBIDDEN, "You are not authorized to delete this addon."))
                /\ UNCHANGED <<addons, addon_cols, versions, likes>>
           ELSE LET left == session_delete(DOMAIN addons, {addon_uuid})
                IN /\ addons' = [a \in left |-> addons[a]]
                   /\ addon_cols' = [a \in left |-> addon_cols[a]]
                   /\ versions' = {v \in versions : v.addon_uuid \in left}
                   /\ likes' = {l \in likes : l.addon_uuid \in left}
                   /\ Answer(p, Response(HTTP_204_NO_CONTENT, ""))
    /\ UNCHANGED <<files, nuuid>>
    /\ UNCHANGED <<liked, dl, qres>>
    /\ UNCHANGED auth_frame

\* ------------------------------------------------------------ create_addon
\* a request reaches a handler: the task holds its parameters and nothing of
\* the request it served before
Begin(p, c) ==
    /\ call' = [call EXCEPT ![p] = c]
    /\ nreq' = nreq + 1
    /\ req' = [req EXCEPT ![p] = NoReq]
    /\ loc' = [loc EXCEPT ![p] = NoLoc]
    /\ newv' = [newv EXCEPT ![p] = 0]
    /\ fail' = [fail EXCEPT ![p] = ""]
    /\ io' = [io EXCEPT ![p] = {}]

\* the locals of the upload handler
upload_locals == <<req, loc, newv, fail, io>>

\* the bodies of the create_addon requests
AddOnCreates ==
    [name : AddonNames, type : {"mod"},
     short_description : ShortDescriptions, description : {Pad(<<"b", "a">>, 20)}]

\* the bodies of the update_addon requests, after model_dump(exclude_unset=True)
AddOnUpdates ==
    [name : AddonNames \cup {Unset}, short_description : ShortDescriptions \cup {Unset}]

\* models/addon.py line 27: name is unique=True, a unique index on the column
\* as it is stored; the rows in others must not have this very name
name_refused(name, others) ==
    \E a \in others : addon_cols[a].name = name

\* lines 277-279 and 344-349: the rows whose lower-cased name is the
\* lower-cased new name, besides the row except
existing_addon_by_name(name, except) ==
    {a \in DOMAIN addons \ except : lower(addon_cols[a].name) = lower(name)}

\* addon.py lines 276-284: the select by lower(name) executes; 409 when a row
\* is found
create_addon_check(p) ==
    /\ pc[p] = "idle"
    /\ Cardinality(NewAddonIds \ DOMAIN addons)
          > Cardinality({q \in Procs : pc[q] = "create_commit"})
    /\ \E user \in Users, addon_data \in AddOnCreates :
        /\ Begin(p, Call("create_addon", None, user, addon_data, <<>>))
        /\ IF existing_addon_by_name(addon_data.name, {}) # {}
           THEN Finish(p, Response(HTTP_409_CONFLICT, "An addon with the same name already exists."))
           ELSE /\ pc' = [pc EXCEPT ![p] = "create_commit"]
                /\ resp' = [resp EXCEPT ![p] = NoResp]
    /\ UNCHANGED <<addons, addon_cols, versions, likes, liked, files, nuuid, dl, qres>>
    /\ UNCHANGED auth_frame

\* addon.py lines 286-292: session.add(new_addon) and commit: the row is
\* inserted under a fresh uuid, or the unique index on name refuses it and the
\* IntegrityError, which nothing catches, becomes the 500 of the framework
create_addon_commit(p) ==
    /\ pc[p] = "create_commit"
    /\ LET d == call[p].data IN
       IF name_refused(d.name, DOMAIN addons)
       THEN /\ Finish(p, Response(HTTP_500_INTERNAL_SERVER_ERROR, "Internal Server Error"))
            /\ UNCHANGED <<addons, addon_cols, call>>
       ELSE \E uuid \in NewAddonIds \ DOMAIN addons :
            /\ addons' = [a \in DOMAIN addons \cup {uuid} |->
                            IF a = uuid THEN call[p].user ELSE addons[a]]
            /\ addon_cols' = [a \in DOMAIN addons \cup {uuid} |->
                            IF a = uuid
                            THEN new_addon(d.name, d.type, d.short_description, d.description)
                            ELSE addon_cols[a]]
            /\ call' = [call EXCEPT ![p].addon_uuid = uuid]
            /\ Goto(p, "create_refresh")
    /\ UNCHANGED <<versions, likes, liked, files, nuuid, nreq, dl, qres>>
    /\ UNCHANGED upload_locals
    /\ UNCHANGED auth_frame

\* addon.py lines 293-306: session.refresh(new_addon) returns and the dict of
\* the answer is validated: 201, or the ValidationError, which nothing
\* catches, becomes the 500 of the framework
create_addon_refresh(p) ==
    /\ pc[p] = "create_refresh"
    /\ IF model_validate({"uuid", "user_uuid", "name", "type", "short_description",
                          "description", "downloads", "publish_date", "update_date",
                          "likes_count"})
       THEN Finish(p, Response(HTTP_201_CREATED, "AddOnResponse"))
       ELSE Finish(p, Response(HTTP_500_INTERNAL_SERVER_ERROR, "Internal Server Error"))
    /\ UNCHANGED <<addons, addon_cols, versions, likes, liked, files, nuuid, nreq, call, dl, qres>>
    /\ UNCHANGED upload_locals
    /\ UNCHANGED auth_frame

\* ------------------------------------------------------------ update_addon
\* the ownership test of update_addon left out
update_forbidden_never(db_owner, user) == FALSE

\* addon.py line 335
update_forbidden(db_owner, user) == db_owner # user

\* addon.py line 343: the new name is checked against the other rows only
\* when it differs, ignoring case, from the name of the loaded instance
name_check_needed(update_data, db_addon) ==
    update_data.name # Unset /\ lower(update_data.name) # lower(db_addon.name)

\* addon.py lines 356-357 and the flush of the commit: the attributes that
\* were set to a value other than the loaded one are written to the row, and
\* the onupdate default of update_date with them
flushed(row, update_data, db_addon) ==
    LET name_set == update_data.name # Unset /\ update_data.name # db_addon.name
        short_set == update_data.short_description # Unset
                        /\ update_data.short_description # db_addon.short_description
    IN IF ~name_set /\ ~short_set
       THEN row
       ELSE [row EXCEPT !.name = IF name_set THEN update_data.name ELSE @,
                        !.short_description =
                            IF short_set THEN update_data.short_description ELSE @,
                        !.update_date = ImportTime]

\* addon.py lines 315-343: the select of the add-on with its like count
\* executes; 404, 403, then whether the name has to be checked
update_addon_select(p) ==
    /\ pc[p] = "idle"
    /\ \E addon_uuid \in AddonIds, user \in Users, update_data \in AddOnUpdates :
        IF addon_uuid \notin DOMAIN addons
        THEN /\ Begin(p, Call("update_addon", addon_uuid, user, update_data, <<>>))
             /\ Finish(p, Response(HTTP_404_NOT_FOUND, "Add-on not found."))
        ELSE /\ Begin(p, Call("update_addon", addon_uuid, user, update_data, addon_cols[addon_uuid]))
             /\ IF update_forbidden(addons[addon_uuid], user)
                THEN Finish(p, Response(HTTP_403_FORBIDDEN, "You are not authorized to update this addon."))
                ELSE /\ pc' = [pc EXCEPT ![p] =
                           IF name_check_needed(update_data, addon_cols[addon_uuid])
                           THEN "update_name" ELSE "update_commit"]
                     /\ resp' = [resp EXCEPT ![p] = NoResp]
    /\ UNCHANGED <<addons, addon_cols, versions, likes, liked, files, nuuid, dl, qres>>
    /\ UNCHANGED auth_frame

\* addon.py lines 344-354: the select of another row with the new name
\* executes; 400 when one is found
update_addon_check_name(p) ==
    /\ pc[p] = "update_name"
    /\ IF existing_addon_by_name(call[p].data.name, {call[p].addon_uuid}) # {}
       THEN Finish(p, Response(HTTP_400_BAD_REQUEST, "An addon with the same name already exists."))
       ELSE Goto(p, "update_commit")
    /\ UNCHANGED <<addons, addon_cols, versions, likes, liked, files, nuuid, nreq, call, dl, qres>>
    /\ UNCHANGED upload_locals
    /\ UNCHANGED auth_frame

\* addon.py lines 356-359: the attributes are set and the commit flushes the
\* UPDATE; the unique index on name refuses a name another row has, and the
\* IntegrityError, which nothing catches, becomes the 500 of the framework
update_addon_commit(p) ==
    /\ pc[p] = "update_commit"
    /\ LET a == call[p].addon_uuid
           row == flushed(addon_cols[a], call[p].data, call[p].db)
       IN IF a \notin DOMAIN addons
             \/ (row.name # addon_cols[a].name /\ name_refused(row.name, DOMAIN addons \ {a}))
          THEN /\ Finish(p, Response(HTTP_500_INTERNAL_SERVER_ERROR, "Internal Server Error"))
               /\ UNCHANGED addon_cols
          ELSE /\ addon_cols' = [addon_cols EXCEPT ![a] = row]
               /\ Goto(p, "update_reselect")
    /\ UNCHANGED <<addons, versions, likes, liked, files, nuuid, nreq, call, dl, qres>>
    /\ UNCHANGED upload_locals
    /\ UNCHANGED auth_frame

\* addon.py lines 361-391: the row is selected again: 500 when it is gone;
\* else the dict of the answer is validated: 200, or the ValidationError,
\* which nothing catches, becomes the 500 of the framework
update_addon_reselect(p) ==
    /\ pc[p] = "update_reselect"
    /\ IF call[p].addon_uuid \notin DOMAIN addons
       THEN Finish(p, Response(HTTP_500_INTERNAL_SERVER_ERROR, "An error occurred while updating the addon."))
       ELSE IF model_validate({"uuid", "user_uuid", "name", "type", "short_description",
                               "description", "downloads", "publish_date", "update_date",
                               "likes_count"})
       THEN Finish(p, Response(HTTP_200_OK, "AddOnResponse"))
       ELSE Finish(p, Response(HTTP_500_INTERNAL_SERVER_ERROR, "Internal Server Error"))
    /\ UNCHANGED <<addons, addon_cols, versions, likes, liked, files, nuuid, nreq, call, dl, qres>>
    /\ UNCHANGED upload_locals
    /\ UNCHANGED auth_frame

\* --------------------------------------------------- like_addon, unlike_addon
\* the user_likes table without its unique constraint
like_refused_no_constraint(row) ==
    row.addon_uuid \notin DOMAIN addons

\* models/user_likes.py lines 17 and 21: the unique constraint on
\* (user_uuid, addon_uuid) and the foreign key to addons.uuid
like_refused(row) ==
    \/ row.addon_uuid \notin DOMAIN addons
    \/ \E l \in likes : l.user_uuid = row.user_uuid /\ l.addon_uuid = row.addon_uuid

\* userlikes.py lines 43-48 and 78-83: the likes of this user for this add-on
existing_like(user, addon_uuid) ==
    {l \in likes : l.user_uuid = user /\ l.addon_uuid = addon_uuid}

\* userlikes.py line 52, with the uuid the column default gives the row
new_like(p, uuid) ==
    [uuid |-> uuid, user_uuid |-> call[p].user, addon_uuid |-> call[p].addon_uuid]

\* what the steps of the like handlers leave alone
like_frame == <<addons, addon_cols, versions, files, dl, qres>>

\* userlikes.py lines 37-41: the select of the add-on executes; 404 when it
\* does not exist
like_addon_select_addon(p) ==
    /\ pc[p] = "idle"
    /\ \E addon_uuid \in AddonIds, user \in Users :
        /\ Begin(p, Call("like_addon", addon_uuid, user, <<>>, <<>>))
        /\ IF addon_uuid \notin DOMAIN addons
           THEN Finish(p, Response(HTTP_404_NOT_FOUND, "Addon not found."))
           ELSE /\ pc' = [pc EXCEPT ![p] = "like_existing"]
                /\ resp' = [resp EXCEPT ![p] = NoResp]
    /\ UNCHANGED <<likes, liked, nuuid>>
    /\ UNCHANGED like_frame
    /\ UNCHANGED auth_frame

\* userlikes.py lines 43-50: the select of the like executes; 400 when the
\* user already likes the add-on
like_addon_check_existing(p) ==
    /\ pc[p] = "like_existing"
    /\ IF existing_like(call[p].user, call[p].addon_uuid) # {}
       THEN Finish(p, Response(HTTP_400_BAD_REQUEST, "You've already given this addon a like."))
       ELSE Goto(p, "like_commit")
    /\ UNCHANGED <<likes, liked, nuuid, nreq, call>>
    /\ UNCHANGED upload_locals
    /\ UNCHANGED like_frame
    /\ UNCHANGED auth_frame

\* userlikes.py lines 52-62: session.add(new_like) and commit.  The store
\* refuses the row with an IntegrityError, which goes to the rollback as any
\* exception other than ValueError does; a ValueError is answered 400 at once
like_addon_commit(p) ==
    /\ pc[p] = "like_commit"
    /\ nuuid' = nuuid + 1
    /\ IF like_refused(new_like(p, nuuid + 1))
       THEN /\ Goto(p, "like_rollback")
            /\ UNCHANGED <<likes, liked, io>>
       ELSE \E outcome \in {"ok", "ValueError", "Exception"} :
            IF outcome = "ok"
            THEN /\ likes' = likes \cup {new_like(p, nuuid + 1)}
                 /\ liked' = liked \cup {<<call[p].user, call[p].addon_uuid>>}
                 /\ io' = [io EXCEPT ![p] = @ \cup {"inserted"}]
                 /\ Goto(p, "like_refresh")
            ELSE IF outcome = "ValueError"
            THEN /\ Finish(p, Response(HTTP_400_BAD_REQUEST, "str(e)"))
                 /\ UNCHANGED <<likes, liked, io>>
            ELSE /\ Goto(p, "like_rollback")
                 /\ UNCHANGED <<likes, liked, io>>
    /\ UNCHANGED <<nreq, call, req, loc, newv, fail>>
    /\ UNCHANGED like_frame
    /\ UNCHANGED auth_frame

\* userlikes.py lines 57-64: session.refresh(new_like) returns and the handler
\* answers 200, or raises inside the same try
like_addon_refresh(p) ==
    /\ pc[p] = "like_refresh"
    /\ \E ok \in BOOLEAN :
        IF ok
        THEN Finish(p, Response(HTTP_200_OK, ""))
        ELSE Goto(p, "like_rollback")
    /\ UNCHANGED <<likes, liked, nuuid, nreq, call>>
    /\ UNCHANGED upload_locals
    /\ UNCHANGED like_frame
    /\ UNCHANGED auth_frame

\* userlikes.py lines 60-62: session.rollback() returns and the handler
\* answers 500
like_addon_rollback(p) ==
    /\ pc[p] = "like_rollback"
    /\ Finish(p, Response(HTTP_500_INTERNAL_SERVER_ERROR, "Failed to like."))
    /\ UNCHANGED <<likes, liked, nuuid, nreq, call>>
    /\ UNCHANGED upload_locals
    /\ UNCHANGED like_frame
    /\ UNCHANGED auth_frame

\* userlikes.py lines 72-76: the select of the add-on executes; 404 when it
\* does not exist
unlike_addon_select_addon(p) ==
    /\ pc[p] = "idle"
    /\ \E addon_uuid \in AddonIds, user \in Users :
        /\ Begin(p, Call("unlike_addon", addon_uuid, user, <<>>, <<>>))
        /\ IF addon_uuid \notin DOMAIN addons
           THEN Finish(p, Response(HTTP_404_NOT_FOUND, "Addon not found."))
           ELSE /\ pc' = [pc EXCEPT ![p] = "unlike_existing"]
                /\ resp' = [resp EXCEPT ![p] = NoResp]
    /\ UNCHANGED <<likes, liked, nuuid>>
    /\ UNCHANGED like_frame
    /\ UNCHANGED auth_frame

\* userlikes.py lines 78-87: the select of the like executes; 400 when the
\* user does not like the add-on, else db_like is the row
unlike_addon_select_like(p) ==
    /\ pc[p] = "unlike_existing"
    /\ IF existing_like(call[p].user, call[p].addon_uuid) = {}
       THEN /\ Finish(p, Response(HTTP_400_BAD_REQUEST, "You didn't give this addon a like."))
            /\ UNCHANGED call
       ELSE \E db_like \in existing_like(call[p].user, call[p].addon_uuid) :
            /\ call' = [call EXCEPT ![p].db = db_like]
            /\ Goto(p, "unlike_commit")
    /\ UNCHANGED <<likes, liked, nuuid, nreq>>
    /\ UNCHANGED upload_locals
    /\ UNCHANGED like_frame
    /\ UNCHANGED auth_frame

\* userlikes.py lines 89-96: session.delete(db_like), which is not awaited,
\* and commit; 204, or the commit raises and the rollback follows
unlike_addon_commit(p) ==
    /\ pc[p] = "unlike_commit"
    /\ \E committed \in BOOLEAN :
        IF committed
        THEN /\ likes' = session_delete(likes, {call[p].db})
             /\ liked' = liked \ {<<call[p].user, call[p].addon_uuid>>}
             /\ Finish(p, Response(HTTP_204_NO_CONTENT, ""))
        ELSE /\ Goto(p, "unlike_rollback")
             /\ UNCHANGED <<likes, liked>>
    /\ UNCHANGED <<nuuid, nreq, call>>
    /\ UNCHANGED upload_locals
    /\ UNCHANGED like_frame
    /\ UNCHANGED auth_frame

\* userlikes.py lines 92-94: session.rollback() returns and the handler
\* answers 500
unlike_addon_rollback(p) ==
    /\ pc[p] = "unlike_rollback"
    /\ Finish(p, Response(HTTP_500_INTERNAL_SERVER_ERROR, "Failed to unlike."))
    /\ UNCHANGED <<likes, liked, nuuid, nreq, call>>
    /\ UNCHANGED upload_locals
    /\ UNCHANGED like_frame
    /\ UNCHANGED auth_frame

\* ----------------------------------------------------------- get_addons
\* the search string is a sequence of characters, " " its whitespace; the
\* empty sequence is both None and ""
IsSpace(c) == c = " "

\* str.split(): the maximal runs of characters that are not whitespace
RECURSIVE split(_)
split(s) ==
    IF s = <<>> THEN <<>>
    ELSE IF IsSpace(s[1]) THEN split(Tail(s))
    ELSE LET ends == {i \in 1..Len(s) : i = Len(s) \/ IsSpace(s[i + 1])}
             e == CHOOSE i \in ends : \A j \in ends : i <= j
         IN <<SubSeq(s, 1, e)>> \o split(SubSeq(s, e + 1, Len(s)))

\* addon.py line 94
search_terms(search) == split(lower(search))

\* the LIKE operator of the store without case: % stands for any run of
\* characters and _ for any one character
RECURSIVE like(_, _)
like(value, pattern) ==
    IF pattern = <<>> THEN value = <<>>
    ELSE IF Head(pattern) = "%"
    THEN like(value, Tail(pattern)) \/ (value # <<>> /\ like(Tail(value), pattern))
    ELSE /\ value # <<>>
         /\ Head(pattern) = "_" \/ LowerChar(Head(value)) = LowerChar(Head(pattern))
         /\ like(Tail(value), Tail(pattern))

\* column.ilike(f"%{term}%"), lines 106-122
ilike(value, term) == like(value, <<"%">> \o term \o <<"%">>)

name_weight == 3
short_description_weight == 2
description_weight == 1

\* lines 104-116: the three case expressions one term adds to the score
term_score(row, term) ==
    (IF ilike(row.name, term) THEN name_weight ELSE 0)
    + (IF ilike(row.short_description, term) THEN short_description_weight ELSE 0)
    + (IF ilike(row.description, term) THEN description_weight ELSE 0)

\* relevance_score_expr: 0 plus the case expressions of every term
RECURSIVE relevance_score(_, _)
relevance_score(row, terms) ==
    IF terms = <<>> THEN 0
    ELSE term_score(row, Head(terms)) + relevance_score(row, Tail(terms))

\* lines 118-127: or_ over the terms of or_ over the three columns; no
\* condition at all when there is no term
search_filter(row, search) ==
    \/ search = <<>>
    \/ search_terms(search) = <<>>
    \/ \E i \in 1..Len(search_terms(search)) :
         LET term == search_terms(search)[i]
         IN \/ ilike(row.name, term)
            \/ ilike(row.short_description, term)
            \/ ilike(row.description, term)

\* lines 126-139: the rows the where clauses of the query let through
filtered(q) ==
    {a \in DOMAIN addons :
        /\ search_filter(addon_cols[a], q.search)
        /\ q.type # None => addon_cols[a].type = q.type
        /\ q.user_uuid # None => addons[a] = q.user_uuid}

\* a count query that forgets the type filter
count_filtered_without_type(q) ==
    {a \in DOMAIN addons :
        /\ q.user_uuid # None => addons[a] = q.user_uuid
        /\ (q.search # <<>> /\ search_terms(q.search) # <<>>)
              => \E i \in 1..Len(search_terms(q.search)) :
                    \/ ilike(addon_cols[a].name, search_terms(q.search)[i])
                    \/ ilike(addon_cols[a].short_description, search_terms(q.search)[i])
                    \/ ilike(addon_cols[a].description, search_terms(q.search)[i])}

\* lines 171-179: the add-ons the count query counts: its own where clauses
\* for type, owner and, when the search has a term, the or_ of the term filters
count_filtered(q) ==
    {a \in DOMAIN addons :
        /\ q.type # None => addon_cols[a].type = q.type
        /\ q.user_uuid # None => addons[a] = q.user_uuid
        /\ (q.search # <<>> /\ search_terms(q.search) # <<>>)
              => \E i \in 1..Len(search_terms(q.search)) :
                    \/ ilike(addon_cols[a].name, search_terms(q.search)[i])
                    \/ ilike(addon_cols[a].short_description, search_terms(q.search)[i])
                    \/ ilike(addon_cols[a].description, search_terms(q.search)[i])}

\* lines 86-88, 232-237, 106-108: count(UserLike.uuid) of the outer join
\* grouped by add-on: the number of like rows of the add-on
likes_count(a) == Cardinality({l \in likes : l.addon_uuid = a})

\* lines 141-149: the keys of the dispatch table
sortable_fields(q) ==
    {"publish_date", "downloads", "update_date", "likes_count"}
        \cup (IF q.search # <<>> THEN {"relevance"} ELSE {})

\* lines 141-146, 149: the value a row is ordered by
sort_key(a, q) ==
    CASE q.sort_by = "publish_date" -> addon_cols[a].publish_date
      [] q.sort_by = "downloads" -> addon_cols[a].downloads
      [] q.sort_by = "update_date" -> addon_cols[a].update_date
      [] q.sort_by = "likes_count" -> likes_count(a)
      [] q.sort_by = "relevance" -> relevance_score(addon_cols[a], search_terms(q.search))

\* an order by clause that is descending for every request
descending_whatever_sort_order(q) == TRUE

\* lines 157-164: relevance is always descending, the other fields follow
\* sort_order
descending(q) == q.sort_by = "relevance" \/ q.sort_order = "desc"

\* the orders in which the store may return the rows: any order that agrees
\* with the order by clause
orderings(rows, q) ==
    {f \in [1..Cardinality(rows) -> rows] :
        /\ \A i, j \in DOMAIN f : i # j => f[i] # f[j]
        /\ \A i, j \in DOMAIN f :
             i < j => IF descending(q)
                      THEN sort_key(f[i], q) >= sort_key(f[j], q)
                      ELSE sort_key(f[i], q) <= sort_key(f[j], q)}

\* a window that starts one page too far
window_after_page(f, q) ==
    LET offset == q.page * q.per_page
        last == IF offset + q.per_page < Len(f) THEN offset + q.per_page ELSE Len(f)
    IN SubSeq(f, offset + 1, last)

\* lines 184-185: offset and limit
window(f, q) ==
    LET offset == (q.page - 1) * q.per_page
        last == IF offset + q.per_page < Len(f) THEN offset + q.per_page ELSE Len(f)
    IN SubSeq(f, offset + 1, last)

\* lines 128, 192-211: a row of the result: the add-on, its like count and,
\* when the query has the column, its relevance score
item(a, q) ==
    [uuid |-> a,
     likes_count |-> likes_count(a),
     relevance_score |->
        IF q.search # <<>> /\ search_terms(q.search) # <<>>
        THEN <<relevance_score(addon_cols[a], search_terms(q.search))>>
        ELSE <<>>]

\* what the read handlers leave alone
read_frame == <<addons, addon_cols, versions, likes, liked, files, nuuid, dl>>

\* a request that may sort by relevance without a search string
relevance_without_search_let_through(q) == FALSE

\* lines 93, 129: the search parameter is None or empty and the sort field is
\* relevance
relevance_without_search(q) == q.search = <<>> /\ q.sort_by = "relevance"

\* addon.py lines 84-182: the query is built: relevance without a search is
\* refused, a sort field that is not in the dispatch table is refused, the
\* order by clause is made; then the count query executes.  With a search
\* string that has no term the score is the integer 0, which desc() may
\* refuse as an order by element
get_addons_count(p, Queries) ==
    /\ pc[p] = "idle"
    /\ \E q \in Queries :
        /\ Begin(p, Call("get_addons", None, None, q, <<>>))
        /\ IF relevance_without_search(q)
           THEN /\ Finish(p, Response(HTTP_400_BAD_REQUEST, "Sorting by relevance is only allowed with a search query."))
                /\ qres' = [qres EXCEPT ![p] = NoRes]
           ELSE IF q.sort_by \notin sortable_fields(q)
           THEN /\ Finish(p, Response(HTTP_400_BAD_REQUEST, "The field is not sortable."))
                /\ qres' = [qres EXCEPT ![p] = NoRes]
           ELSE \E accepted \in BOOLEAN :
                /\ ~accepted => (q.sort_by = "relevance" /\ search_terms(q.search) = <<>>)
                /\ IF accepted
                   THEN /\ pc' = [pc EXCEPT ![p] = "get_addons_rows"]
                        /\ resp' = [resp EXCEPT ![p] = NoResp]
                        /\ qres' = [qres EXCEPT ![p] =
                              [items |-> <<>>, total_count |-> Cardinality(count_filtered(q))]]
                   ELSE /\ Finish(p, Response(HTTP_500_INTERNAL_SERVER_ERROR, "Internal Server Error"))
                        /\ qres' = [qres EXCEPT ![p] = NoRes]
    /\ UNCHANGED read_frame
    /\ UNCHANGED auth_frame

\* addon.py lines 184-218: the query executes with offset and limit, and the
\* rows become the items of the answer
get_addons_rows(p) ==
    /\ pc[p] = "get_addons_rows"
    /\ LET q == call[p].data IN
       \E f \in orderings(filtered(q), q) :
          qres' = [qres EXCEPT ![p].items =
                      [i \in 1..Len(window(f, q)) |-> item(window(f, q)[i], q)]]
    /\ Finish(p, Response(HTTP_200_OK, "AddOnListResponse"))
    /\ UNCHANGED <<nreq, call>>
    /\ UNCHANGED upload_locals
    /\ UNCHANGED read_frame
    /\ UNCHANGED auth_frame

\* addon.py lines 220-266: one query; 404 when it returns no row
get_addon(p) ==
    /\ pc[p] = "idle"
    /\ \E addon_uuid \in AddonIds :
        /\ Begin(p, Call("get_addon", addon_uuid, None, <<>>, <<>>))
        /\ IF addon_uuid \notin DOMAIN addons
           THEN /\ Finish(p, Response(HTTP_404_NOT_FOUND, "Add-on now found."))
                /\ qres' = [qres EXCEPT ![p] = NoRes]
           ELSE /\ Finish(p, Response(HTTP_200_OK, "AddOnResponse"))
                /\ qres' = [qres EXCEPT ![p] =
                      [items |-> <<[uuid |-> addon_uuid,
                                    likes_count |-> likes_count(addon_uuid),
                                    relevance_score |-> <<>>]>>,
                       total_count |-> 0]]
    /\ UNCHANGED read_frame
    /\ UNCHANGED auth_frame

\* userlikes.py lines 102-104: the select of the add-on executes; 404 when it
\* does not exist
get_addon_likes_count_select_addon(p) ==
    /\ pc[p] = "idle"
    /\ \E addon_uuid \in AddonIds :
        /\ Begin(p, Call("get_addon_likes_count", addon_uuid, None, <<>>, <<>>))
        /\ IF addon_uuid \notin DOMAIN addons
           THEN Finish(p, Response(HTTP_404_NOT_FOUND, "Addon not found."))
           ELSE /\ pc' = [pc EXCEPT ![p] = "likes_count"]
                /\ resp' = [resp EXCEPT ![p] = NoResp]
    /\ qres' = [qres EXCEPT ![p] = NoRes]
    /\ UNCHANGED read_frame
    /\ UNCHANGED auth_frame

\* userlikes.py lines 106-111: the count of the like rows of the add-on
get_addon_likes_count_execute(p) ==
    /\ pc[p] = "likes_count"
    /\ qres' = [qres EXCEPT ![p] =
          [items |-> <<[uuid |-> call[p].addon_uuid,
                        likes_count |-> Cardinality({l \in likes : l.addon_uuid = call[p].addon_uuid}),
                        relevance_score |-> <<>>]>>,
           total_count |-> 0]]
    /\ Finish(p, Response(HTTP_200_OK, "likes_count"))
    /\ UNCHANGED <<nreq, call>>
    /\ UNCHANGED upload_locals
    /\ UNCHANGED read_frame
    /\ UNCHANGED auth_frame

\* ------------------------------------------------- get_user_liked_addons
\* api/user.py lines 149-164: the inner join of addons and user_likes, kept
\* to the like rows of the user, and the search pattern on the three text
\* columns: the add-ons of the rows that are left
liked_filtered(q) ==
    {a \in DOMAIN addons :
        /\ \E l \in likes : l.addon_uuid = a /\ l.user_uuid = q.user_uuid
        /\ q.search # <<>>
             => \/ ilike(addon_cols[a].name, lower(q.search))
                \/ ilike(addon_cols[a].short_description, lower(q.search))
                \/ ilike(addon_cols[a].description, lower(q.search))}

\* api/user.py lines 151, 154, 166: count(UserLike.uuid) of the group of an
\* add-on: the like rows the where clause left in it
liked_likes_count(a, q) ==
    Cardinality({l \in likes : l.addon_uuid = a /\ l.user_uuid = q.user_uuid})

\* api/user.py lines 168-172: count(distinct addons.uuid) from the addons
\* table and the subquery, which nothing joins
liked_total_count(q) ==
    IF liked_filtered(q) = {} THEN 0 ELSE Cardinality(DOMAIN addons)

\* api/user.py lines 174-181: the value the rows are ordered by
liked_sort_key(a, q) ==
    CASE q.sort_by = "publish_date" -> addon_cols[a].publish_date
      [] q.sort_by = "downloads" -> addon_cols[a].downloads
      [] q.sort_by = "likes_count" -> liked_likes_count(a, q)

\* the orders in which the store may return the rows
liked_orderings(rows, q) ==
    {f \in [1..Cardinality(rows) -> rows] :
        /\ \A i, j \in DOMAIN f : i # j => f[i] # f[j]
        /\ \A i, j \in DOMAIN f :
             i < j => IF q.sort_order = "desc"
                      THEN liked_sort_key(f[i], q) >= liked_sort_key(f[j], q)
                      ELSE liked_sort_key(f[i], q) <= liked_sort_key(f[j], q)}

\* api/user.py lines 145-147: the select of the user executes; 404 when there
\* is none
get_user_liked_addons_select_user(p, LikedQueries) ==
    /\ pc[p] = "idle"
    /\ \E q \in LikedQueries :
        /\ Begin(p, Call("get_user_liked_addons", None, None, q, <<>>))
        /\ IF ~\E u \in users : u.uuid = q.user_uuid
           THEN Finish(p, Response(HTTP_404_NOT_FOUND, "User not found."))
           ELSE /\ pc' = [pc EXCEPT ![p] = "liked_count"]
                /\ resp' = [resp EXCEPT ![p] = NoResp]
    /\ qres' = [qres EXCEPT ![p] = NoRes]
    /\ UNCHANGED read_frame
    /\ UNCHANGED auth_frame

\* api/user.py lines 168-172: the count query executes
get_user_liked_addons_count(p) ==
    /\ pc[p] = "liked_count"
    /\ qres' = [qres EXCEPT ![p] =
          [items |-> <<>>, total_count |-> liked_total_count(call[p].data)]]
    /\ Goto(p, "liked_rows")
    /\ UNCHANGED <<nreq, call>>
    /\ UNCHANGED upload_locals
    /\ UNCHANGED read_frame
    /\ UNCHANGED auth_frame

\* api/user.py lines 183-204: the query executes with offset and limit; every
\* row is validated as an AddOnResponse, and a ValidationError, which nothing
\* catches, becomes the 500 of the framework; else 200 with the list
get_user_liked_addons_rows(p) ==
    /\ pc[p] = "liked_rows"
    /\ LET q == call[p].data IN
       \E f \in liked_orderings(liked_filtered(q), q) :
          LET addon_rows == [i \in 1..Len(window(f, q)) |->
                               [uuid |-> window(f, q)[i],
                                likes_count |-> liked_likes_count(window(f, q)[i], q),
                                relevance_score |-> <<>>]]
          IN /\ call' = [call EXCEPT ![p].db = addon_rows]
             /\ IF addon_rows = <<>>
                   \/ model_validate({"uuid", "user_uuid", "name", "type",
                                      "short_description", "description", "downloads",
                                      "publish_date", "update_date", "likes_count"})
                THEN /\ qres' = [qres EXCEPT ![p].items = addon_rows]
                     /\ Finish(p, Response(HTTP_200_OK, "AddOnListResponse"))
                ELSE /\ qres' = [qres EXCEPT ![p] = NoRes]
                     /\ Finish(p, Response(HTTP_500_INTERNAL_SERVER_ERROR, "Internal Server Error"))
    /\ UNCHANGED nreq
    /\ UNCHANGED upload_locals
    /\ UNCHANGED read_frame
    /\ UNCHANGED auth_frame

\* ------------------------------------------------ increment_download_count
\* what the download tasks leave alone
download_frame ==
    <<addons, versions, files, pc, req, loc, newv, fail, resp, io, nuuid,
      call, likes, liked, qres>>

\* addon.py lines 427-434: the select of the add-on executes and the instance
\* is loaded with the counter it has now; 404 when there is no row
increment_download_count_select(d) ==
    /\ dl[d].pc = "idle"
    /\ nreq' = nreq + 1
    /\ \E addon_uuid \in AddonIds :
        dl' = [dl EXCEPT ![d] =
                 IF addon_uuid \notin DOMAIN addons
                 THEN [pc |-> "idle", addon_uuid |-> addon_uuid, downloads |-> 0,
                       status |-> HTTP_404_NOT_FOUND]
                 ELSE [pc |-> "commit", addon_uuid |-> addon_uuid,
                       downloads |-> addon_cols[addon_uuid].downloads, status |-> 0]]
    /\ UNCHANGED addon_cols
    /\ UNCHANGED download_frame
    /\ UNCHANGED auth_frame

\* addon.py lines 436-438: downloads += 1 on the loaded instance, and the
\* commit flushes UPDATE addons SET downloads = <that value> for the row
increment_download_count_commit(d) ==
    /\ dl[d].pc = "commit"
    /\ addon_cols' = [addon_cols EXCEPT ![dl[d].addon_uuid] =
          [@ EXCEPT !.downloads = dl[d].downloads + 1, !.update_date = ImportTime]]
    /\ dl' = [dl EXCEPT ![d].pc = "refresh", ![d].downloads = @ + 1]
    /\ UNCHANGED nreq
    /\ UNCHANGED download_frame
    /\ UNCHANGED auth_frame

\* addon.py lines 439-441: session.refresh returns and the handler answers 200
increment_download_count_refresh(d) ==
    /\ dl[d].pc = "refresh"
    /\ dl' = [dl EXCEPT ![d].pc = "idle", ![d].status = HTTP_200_OK,
                        ![d].downloads = addon_cols[dl[d].addon_uuid].downloads]
    /\ UNCHANGED <<addon_cols, nreq>>
    /\ UNCHANGED download_frame
    /\ UNCHANGED auth_frame

\* ------------------------------------------- register, login, logout, me
\* what the handlers of api/auth.py leave alone
auth_others == <<addons, addon_cols, versions, files, likes, liked, dl, qres>>

\* api/auth.py lines 120-125: the except Exception of register catches
\* whatever the try raised, the HTTPException of the two checks included, and
\* raises 500
register_except(raised) ==
    Response(HTTP_500_INTERNAL_SERVER_ERROR, "Registration failed")

\* api/auth.py lines 85-90: the select by e-mail executes; a row found raises
\* HTTPException(400) inside the try
register_select_email(p) ==
    /\ pc[p] = "idle"
    /\ Cardinality(NewUserIds \ {u.uuid : u \in users})
          > Cardinality({q \in Procs : pc[q] \in {"register_username", "register_commit"}})
    /\ \E user \in RegisterModels :
        /\ Begin(p, Call("register", None, None, user, <<>>))
        /\ IF \E u \in users : u.email = user.email
           THEN Finish(p, register_except(Response(HTTP_400_BAD_REQUEST, "Email already registered")))
           ELSE /\ pc' = [pc EXCEPT ![p] = "register_username"]
                /\ resp' = [resp EXCEPT ![p] = NoResp]
    /\ UNCHANGED <<users, jwt, nuuid>>
    /\ UNCHANGED auth_others

\* api/auth.py lines 93-98: the select by user name executes
register_select_username(p) ==
    /\ pc[p] = "register_username"
    /\ IF \E u \in users : u.username = call[p].data.username
       THEN Finish(p, register_except(Response(HTTP_400_BAD_REQUEST, "Username already registered")))
       ELSE Goto(p, "register_commit")
    /\ UNCHANGED <<users, jwt, nuuid, nreq, call>>
    /\ UNCHANGED upload_locals
    /\ UNCHANGED auth_others

\* models/user.py lines 21-22: the unique indexes on username and email
user_refused(row) ==
    \E u \in users : u.username = row.username \/ u.email = row.email

\* api/auth.py lines 101-108: User(...), db.add and commit: the row is
\* inserted under a fresh uuid, or a unique index refuses it and the
\* IntegrityError is caught by the except Exception
register_commit(p) ==
    /\ pc[p] = "register_commit"
    /\ \E uuid \in NewUserIds \ {u.uuid : u \in users} :
        LET d == call[p].data
            row == new_user(uuid, d.username, d.email, d.password)
        IN IF user_refused(row)
           THEN /\ Finish(p, register_except("IntegrityError"))
                /\ UNCHANGED <<users, call>>
           ELSE /\ users' = users \cup {row}
                /\ call' = [call EXCEPT ![p].db = row]
                /\ Goto(p, "register_refresh")
    /\ UNCHANGED <<jwt, nuuid, nreq>>
    /\ UNCHANGED upload_locals
    /\ UNCHANGED auth_others

\* Authorize.create_access_token(subject): a signed token with a fresh jti
create_access_token(subject) == [sub |-> subject, jti |-> nuuid + 1]

\* api/auth.py lines 109-118: db.refresh returns, the access token is made
\* and the handler answers 201
register_refresh(p) ==
    /\ pc[p] = "register_refresh"
    /\ jwt' = [jwt EXCEPT !.issued = @ \cup {create_access_token(call[p].db.uuid)}]
    /\ nuuid' = nuuid + 1
    /\ Finish(p, Response(HTTP_201_CREATED, "User registered successfully"))
    /\ UNCHANGED <<users, nreq, call>>
    /\ UNCHANGED upload_locals
    /\ UNCHANGED auth_others

\* api/auth.py lines 147-175: the select by e-mail executes; 401 when there is
\* no row or the password does not match, else a token and 200
login(p) ==
    /\ pc[p] = "idle"
    /\ \E user \in LoginModels :
        /\ Begin(p, Call("login", None, None, user, <<>>))
        /\ LET found == {u \in users : u.email = user.email}
           IN IF found = {} \/ \A u \in found : u.password_hash # generate_password_hash(user.password)
              THEN /\ Finish(p, Response(HTTP_401_UNAUTHORIZED, "Invalid credentials"))
                   /\ UNCHANGED <<jwt, nuuid>>
              ELSE \E db_user \in found :
                   /\ jwt' = [jwt EXCEPT !.issued = @ \cup {create_access_token(db_user.uuid)}]
                   /\ nuuid' = nuuid + 1
                   /\ Finish(p, Response(HTTP_200_OK, "Login successful"))
    /\ UNCHANGED users
    /\ UNCHANGED auth_others

\* the tokens a request may carry in its Authorization header: one the server
\* issued, or none
Presented == jwt.issued \cup {NoToken}

\* middlewares/auth.py line 45 with settings.py lines 46-54: the token of the
\* header has the signature of the secret key and is not expired; the
\* denylist is disabled, so nothing else is asked
jwt_required(token) ==
    token \in jwt.issued \ jwt.expired

\* api/auth.py lines 177-197: authenticate (middlewares/auth.py 39-53, 401
\* when jwt_required raises), then unset_jwt_cookies, which
\* concerns the cookies of a response and, with tokens in headers only,
\* returns or raises; 200 or the 500 of the except
logout(p) ==
    /\ pc[p] = "idle"
    /\ \E token \in Presented :
        /\ Begin(p, Call("logout", None, token.sub, token, <<>>))
        /\ IF ~jwt_required(token)
           THEN /\ Finish(p, Response(HTTP_401_UNAUTHORIZED, "Not authenticated"))
                /\ UNCHANGED jwt
           ELSE \E raised \in BOOLEAN :
                /\ raised => "cookies" \notin authjwt_token_location
                /\ IF raised
                   THEN /\ Finish(p, Response(HTTP_500_INTERNAL_SERVER_ERROR, "Logout failed"))
                        /\ UNCHANGED jwt
                   ELSE /\ Finish(p, Response(HTTP_200_OK, "Logout successful"))
                        /\ jwt' = [jwt EXCEPT !.logged_out = @ \cup {token}]
    /\ UNCHANGED <<users, nuuid>>
    /\ UNCHANGED auth_others

\* api/auth.py lines 199-235: authenticate, then the select of the user of the
\* token's subject; 200, or the 404 that the except Exception turns into 500
get_current_user(p) ==
    /\ pc[p] = "idle"
    /\ \E token \in Presented :
        /\ Begin(p, Call("get_current_user", None, token.sub, token, <<>>))
        /\ IF ~jwt_required(token)
           THEN Finish(p, Response(HTTP_401_UNAUTHORIZED, "Not authenticated"))
           ELSE IF \E u \in users : u.uuid = token.sub
           THEN Finish(p, Response(HTTP_200_OK, "user.to_dict()"))
           ELSE Finish(p, Response(HTTP_500_INTERNAL_SERVER_ERROR, "Failed to get user information"))
    /\ UNCHANGED <<users, jwt, nuuid>>
    /\ UNCHANGED auth_others

\* settings.py lines 13 and 47: the lifetime of an access token ends
access_token_expires(token) ==
    /\ token \in jwt.issued \ jwt.expired
    /\ jwt' = [jwt EXCEPT !.expired = @ \cup {token}]
    /\ UNCHANGED <<pc, resp, call, nreq, users, nuuid>>
    /\ UNCHANGED upload_locals
    /\ UNCHANGED auth_others

\* ---------------------------------------------------------- specifications
\* concurrent uploads: every request is served by a task of its own, and the
\* tasks interleave at their awaits
Fresh(p) == pc[p] = "idle" /\ resp[p] = NoResp

Next ==
    \E p \in Procs :
        \/ Fresh(p) /\ Upload_CheckAddon(p)
        \/ Upload_CheckLabel(p)
        \/ Upload_ReadFile(p)
        \/ Upload_CheckHash(p)
        \/ Upload_CheckUrl(p)
        \/ Upload_OpenFile(p)
        \/ Upload_WriteFile(p)
        \/ Upload_Commit(p)
        \/ Upload_Refresh(p)
        \/ Upload_Rollback(p)

Spec == Init /\ [][Next]_vars

\* uploads and deletions one at a time: one task issues the requests, each
\* request runs to its response before the next one arrives
SeqProc == "p1"

SeqNext ==
    \/ Upload(SeqProc)
    \/ delete_addon_version(SeqProc)
    \/ delete_addon(SeqProc)

SeqSpec == Init /\ [][SeqNext]_vars

\* the four handlers that test the ownership of an add-on, one request at a
\* time
OwnerNext ==
    \/ Upload(SeqProc)
    \/ delete_addon_version(SeqProc)
    \/ delete_addon(SeqProc)
    \/ nreq < MaxRequests /\ update_addon_select(SeqProc)
    \/ update_addon_check_name(SeqProc)
    \/ update_addon_commit(SeqProc)
    \/ update_addon_reselect(SeqProc)

OwnerSpec == Init /\ [][OwnerNext]_vars

\* get_addons as it is called without parameters
DefaultQuery ==
    [page |-> 1, per_page |-> 10, type |-> None, user_uuid |-> None,
     search |-> <<>>, sort_by |-> "downloads", sort_order |-> "desc"]

\* concurrent like and unlike requests and the three reads of the like count
LikeNext ==
    \E p \in Procs :
        \/ nreq < MaxLikeRequests /\ like_addon_select_addon(p)
        \/ like_addon_check_existing(p)
        \/ like_addon_commit(p)
        \/ like_addon_refresh(p)
        \/ like_addon_rollback(p)
        \/ nreq < MaxLikeRequests /\ unlike_addon_select_addon(p)
        \/ unlike_addon_select_like(p)
        \/ unlike_addon_commit(p)
        \/ unlike_addon_rollback(p)
        \/ nreq < MaxLikeRequests /\ get_addon_likes_count_select_addon(p)
        \/ get_addon_likes_count_execute(p)
        \/ nreq < MaxLikeRequests /\ get_addon(p)
        \/ nreq < MaxLikeRequests /\ get_addons_count(p, {DefaultQuery})
        \/ get_addons_rows(p)

LikeSpec == Init /\ [][LikeNext]_vars

\* concurrent increment_download_count requests
DownloadNext ==
    \E d \in DlProcs :
        \/ nreq < MaxDownloads /\ increment_download_count_select(d)
        \/ increment_download_count_commit(d)
        \/ increment_download_count_refresh(d)

DownloadSpec == Init /\ [][DownloadNext]_vars

\* concurrent requests to the handlers of api/auth.py, and time passing
AuthNext ==
    \/ \E p \in Procs :
        \/ nreq < MaxAuthRequests /\ register_select_email(p)
        \/ register_select_username(p)
        \/ register_commit(p)
        \/ register_refresh(p)
        \/ nreq < MaxAuthRequests /\ login(p)
        \/ nreq < MaxAuthRequests /\ logout(p)
        \/ nreq < MaxAuthRequests /\ get_current_user(p)
    \/ \E token \in jwt.issued : access_token_expires(token)

AuthSpec == Init /\ [][AuthNext]_vars

\* the search strings of the get_addons requests; <<>> is no search
Searches ==
    { <<>>,
      <<"a", "b">>,
      <<"B", "A">>,
      <<"b", "b", " ", "a", "a">>,
      <<"z">>,
      <<"_">>,
      <<"%">>,
      <<" ">> }

\* the values the pattern of sort_by lets through (lines 73-77)
SortFields == {"name", "publish_date", "update_date", "downloads", "likes_count", "relevance"}

\* the get_addons requests
Queries ==
    [page : {1, 2}, per_page : {1, 10}, type : {None, "mod"}, user_uuid : {None, "u2"},
     search : Searches, sort_by : SortFields, sort_order : {"asc", "desc"}]

\* the catalogue the queries run on: two add-ons, one after some downloads,
\* likes and a restart of the server
QueryInit ==
    /\ addons = [a \in {"a1", "a2"} |-> IF a = "a1" THEN "u1" ELSE "u2"]
    /\ \E n2 \in {<<"b", "a", "b">>, <<"B", "b", "a">>}, s1 \in ShortDescriptions,
          d2 \in {Pad(<<"a", "a">>, 20)}, t2 \in {"shader"},
          c1 \in {0, 1}, p1 \in {ImportTime, ImportTime + 1} :
         addon_cols = [a \in {"a1", "a2"} |->
            IF a = "a1"
            THEN [new_addon(<<"a", "b", "a">>, "mod", s1, Pad(<<"b", "a">>, 20))
                    EXCEPT !.downloads = c1, !.publish_date = p1]
            ELSE new_addon(n2, t2, Pad(<<"B", "b">>, 10), d2)]
    /\ \E ls \in {{}, {<<1, "u1", "a1">>}, {<<1, "u1", "a1">>, <<2, "u2", "a1">>}} :
         /\ likes = {[uuid |-> l[1], user_uuid |-> l[2], addon_uuid |-> l[3]] : l \in ls}
         /\ liked = {<<l[2], l[3]>> : l \in ls}
         /\ nuuid = Cardinality(ls)
    /\ versions = {}
    /\ files = <<>>
    /\ pc = [p \in Procs |-> "idle"]
    /\ req = [p \in Procs |-> NoReq]
    /\ loc = [p \in Procs |-> NoLoc]
    /\ newv = [p \in Procs |-> 0]
    /\ fail = [p \in Procs |-> ""]
    /\ resp = [p \in Procs |-> NoResp]
    /\ io = [p \in Procs |-> {}]
    /\ nreq = 0
    /\ call = [p \in Procs |-> NoCall]
    /\ dl = [d \in DlProcs |-> NoDl]
    /\ qres = [p \in Procs |-> NoRes]
    /\ users = InitialUsers
    /\ jwt = [issued |-> {}, expired |-> {}, logged_out |-> {}]

\* one get_addons request on the catalogue
QueryNext ==
    \/ Fresh(SeqProc) /\ get_addons_count(SeqProc, Queries)
    \/ get_addons_rows(SeqProc)

QuerySpec == QueryInit /\ [][QueryNext]_vars

\* one get_user_liked_addons request on the catalogue
LikedNext ==
    \/ /\ Fresh(SeqProc)
       /\ get_user_liked_addons_select_user(SeqProc,
             [user_uuid : {"u1", "u2", "u3"}, page : {1, 2}, per_page : {1, 10},
              sort_by : {"publish_date", "likes_count"}, sort_order : {"asc", "desc"},
              search : {<<>>, <<"a", "b">>}])
    \/ get_user_liked_addons_count(SeqProc)
    \/ get_user_liked_addons_rows(SeqProc)

LikedSpec == QueryInit /\ [][LikedNext]_vars

\* concurrent create_addon and update_addon requests: the tasks interleave at
\* their awaits
AddonNext ==
    \E p \in Procs :
        \/ nreq < MaxRequests /\ create_addon_check(p)
        \/ create_addon_commit(p)
        \/ create_addon_refresh(p)
        \/ nreq < MaxRequests /\ update_addon_select(p)
        \/ update_addon_check_name(p)
        \/ update_addon_commit(p)
        \/ update_addon_reselect(p)

AddonSpec == Init /\ [][AddonNext]_vars

\* ------------------------------------------------------------------ claims
Busy(p) == pc[p] # "idle"

\* p takes a step of its upload request
Steps(p) == pc'[p] # pc[p] \/ (pc[p] = "idle" /\ nreq' # nreq /\ req'[p] # NoReq)

\* p's request ends with this step
Ends(p) == Busy(p) /\ pc'[p] = "idle"

Conflict(r) ==
    /\ r.status = HTTP_400_BAD_REQUEST
    /\ r.detail \in {"Version already exists for this addon.",
                     "A file with this hash has already been downloaded.",
                     "The URL for the download is already in use."}

Created(r) == r.status = HTTP_201_CREATED

\* C1: after any interleaving of concurrent uploads, no two Version rows share
\* the same file_hash and no two share the same download_url
C1_UniqueHashAndUrl ==
    \A v, w \in versions :
        v # w => v.file_hash # w.file_hash /\ v.download_url # w.download_url

\* C6: in every reachable state, no two Version rows of the same add-on have
\* labels that are equal ignoring case
C6_UniqueLabelPerAddon ==
    \A v, w \in versions :
        (v # w /\ v.addon_uuid = w.addon_uuid) => lower(v.version) # lower(w.version)

\* the paths the download URLs of the Version rows refer to
ReferencedPaths == {PathOfUrl(v.download_url) : v \in versions}

\* C3: with requests run one at a time, whenever no request is in flight a
\* file exists in the files directory if and only if some Version row's
\* download_url refers to it
C3_FilesAgreeWithRows ==
    (\A p \in Procs : ~Busy(p)) => DOMAIN files = ReferencedPaths

\* C9: when writing the file bytes fails after the destination file was
\* created, the file is gone when the internal error is returned, and no
\* Version row was inserted
C9_PartialFileDeleted ==
    [][\A p \in Procs :
         (pc[p] = "write" /\ Ends(p) /\ resp'[p].status = HTTP_500_INTERNAL_SERVER_ERROR)
            => /\ loc[p].file_path_on_disk \notin DOMAIN files'
               /\ versions' = versions]_vars

\* the file content is empty or longer than 15 MiB
EmptyOrOversized(file) ==
    file.content.len = 0 \/ file.content.len > 15 * 1024 * 1024

ClientError(r) == r.status \in 400..499

\* C8: an upload whose file content is empty or longer than 15 MiB creates
\* neither a file nor a Version row, whatever size the UploadFile reports, and
\* ends with a client error
C8_EmptyOrOversizedRejected ==
    [][\A p \in Procs :
         (Busy(p) /\ EmptyOrOversized(req[p].file))
            => /\ files' = files
               /\ versions' = versions
               /\ Ends(p) => ClientError(resp'[p])]_vars

\* the precondition that fails first for request r, in the order of the
\* claim: 1 add-on missing, 2 caller not the owner, 3 duplicate label,
\* 4 empty or oversized file; 0 when all hold
FirstFailing(r) ==
    IF r.addon_uuid \notin DOMAIN addons THEN 1
    ELSE IF addons[r.addon_uuid] # r.user THEN 2
    ELSE IF \E v \in versions :
               v.addon_uuid = r.addon_uuid /\ lower(v.version) = lower(r.version) THEN 3
    ELSE IF EmptyOrOversized(r.file) THEN 4
    ELSE 0

\* the precondition a response reports as failed; 0 for any other response
Reported(r) ==
    IF r.status = HTTP_404_NOT_FOUND THEN 1
    ELSE IF r.status = HTTP_403_FORBIDDEN THEN 2
    ELSE IF r = Response(HTTP_400_BAD_REQUEST, "Version already exists for this addon.") THEN 3
    ELSE IF r \in {Response(HTTP_400_BAD_REQUEST, "File size exceeds 15 MB"),
                   Response(HTTP_400_BAD_REQUEST, "The uploaded file is empty.")} THEN 4
    ELSE 0

\* C7: with requests run one at a time, an upload of which a precondition
\* fails ends with the error of the first failing precondition in the order
\* not-found, forbidden, duplicate label, empty or oversized file, and an
\* upload gets past the preconditions only when none fails
C7_FirstFailureWins ==
    [][\A p \in Procs :
         (Steps(p) /\ req'[p] # NoReq)
            => /\ (pc'[p] = "idle" /\ pc[p] \in {"idle", "label", "read"})
                     => Reported(resp'[p]) = FirstFailing(req'[p])
               /\ pc'[p] = "hash" => FirstFailing(req'[p]) = 0]_vars

\* C2 as stated: when the commit fails after the file was written, the file
\* no longer exists when the error is returned, and no Version row of the
\* upload exists
C2_FileRemoved ==
    [][\A p \in Procs :
         (pc[p] = "rollback" /\ "commit_failed" \in io[p] /\ Ends(p))
            => /\ loc[p].file_path_on_disk \notin DOMAIN files'
               /\ \A v \in versions' : v.uuid # newv[p]]_vars

\* C2 (amended): when the commit fails after the file was written, no Version
\* row of the upload exists when the error is returned, and the file no longer
\* exists unless removing it failed, which is reported by a warning
C2_FileRemovedUnlessRemoveFails ==
    [][\A p \in Procs :
         (pc[p] = "rollback" /\ "commit_failed" \in io[p] /\ Ends(p))
            => /\ loc[p].file_path_on_disk \in DOMAIN files' => "warning" \in io'[p]
               /\ \A v \in versions' : v.uuid # newv[p]
               /\ resp'[p].status \in {HTTP_400_BAD_REQUEST, HTTP_500_INTERNAL_SERVER_ERROR}]_vars

\* a failed commit after a complete write, answered after the file was removed
C2_Witness ==
    \E p \in Procs :
        /\ ~Busy(p)
        /\ {"written", "commit_failed", "removed"} \subseteq io[p]
        /\ resp[p] = Response(HTTP_500_INTERNAL_SERVER_ERROR, "Failed to add a new version.")
        /\ loc[p].file_path_on_disk \notin DOMAIN files
        /\ \A v \in versions : v.uuid # newv[p]

HashConflict == Response(HTTP_400_BAD_REQUEST, "A file with this hash has already been downloaded.")

LabelConflict == Response(HTTP_400_BAD_REQUEST, "Version already exists for this addon.")

Wrote(p) == io[p] \cap {"created", "written", "inserted", "removed"} # {}

LabelTaken(a, l) ==
    \E v \in versions : v.addon_uuid = a /\ lower(v.version) = lower(l)

Hashed(p) == loc[p] # NoLoc

\* C10 as stated: two uploads with identical bytes have the same stored path
\* and the same download URL
C10_PathFromBytesOnly ==
    \A p, q \in Procs :
        (Hashed(p) /\ Hashed(q) /\ req[p].file.content = req[q].file.content)
            => /\ loc[p].file_path_on_disk = loc[q].file_path_on_disk
               /\ loc[p].download_url = loc[q].download_url

\* C10 (amended): two uploads with identical bytes and the same extension of
\* the original file name have the same stored path and the same download
\* URL, whatever their labels, add-ons and the rest of the file names
C10_PathFromBytesAndExtension ==
    \A p, q \in Procs :
        (Hashed(p) /\ Hashed(q) /\ req[p].file.content = req[q].file.content
            /\ splitext_ext(req[p].file.filename) = splitext_ext(req[q].file.filename))
            => /\ loc[p].file_path_on_disk = loc[q].file_path_on_disk
               /\ loc[p].download_url = loc[q].download_url

\* two uploads of the same bytes under different labels and file names with
\* the same extension
C10_Witness ==
    \E p, q \in Procs :
        /\ p # q /\ Hashed(p) /\ Hashed(q)
        /\ req[p].file.content = req[q].file.content
        /\ req[p].file.filename # req[q].file.filename
        /\ splitext_ext(req[p].file.filename) = splitext_ext(req[q].file.filename)
        /\ req[p].version # req[q].version
        /\ loc[p].file_path_on_disk = loc[q].file_path_on_disk

\* the handlers that change an add-on, its versions or the stored files
OwnerOps == {"add_new_addon_version", "delete_addon_version", "delete_addon", "update_addon"}

\* the request that arrives in this step names an existing add-on and comes
\* from a verified caller who does not own it
NonOwnerRequest(p) ==
    /\ pc[p] = "idle"
    /\ nreq' # nreq
    /\ call'[p].op \in OwnerOps
    /\ call'[p].addon_uuid \in DOMAIN addons
    /\ addons[call'[p].addon_uuid] # call'[p].user

\* C11: a request to add_new_addon_version, delete_addon_version, delete_addon
\* or update_addon whose caller is not the owner of the add-on is answered
\* 403 at once and leaves the add-on rows, the versions, the likes and the
\* files as they were
C11_NonOwnerChangesNothing ==
    [][NonOwnerRequest(SeqProc)
          => /\ resp'[SeqProc].status = HTTP_403_FORBIDDEN
             /\ pc'[SeqProc] = "idle"
             /\ UNCHANGED <<addons, addon_cols, versions, likes, files>>]_vars

\* an update of the name by a caller who is not the owner, answered 403 after
\* the owner uploaded a version
C11_Witness ==
    /\ call[SeqProc].op = "update_addon"
    /\ call[SeqProc].addon_uuid \in DOMAIN addons
    /\ addons[call[SeqProc].addon_uuid] # call[SeqProc].user
    /\ call[SeqProc].data.name # Unset
    /\ call[SeqProc].data.name # addon_cols[call[SeqProc].addon_uuid].name
    /\ resp[SeqProc].status = HTTP_403_FORBIDDEN
    /\ \E v \in versions : v.addon_uuid = call[SeqProc].addon_uuid

\* C12: in every reachable state no two AddOn rows have names that are equal
\* ignoring case
C12_UniqueNameIgnoringCase ==
    \A a, b \in DOMAIN addons :
        a # b => lower(addon_cols[a].name) # lower(addon_cols[b].name)

\* C13: in every reachable state there is at most one UserLike row for a
\* (user, add-on) pair
C13_OneLikePerPair ==
    \A l, k \in likes :
        (l.user_uuid = k.user_uuid /\ l.addon_uuid = k.addon_uuid) => l = k

\* two concurrent likes of one pair that both passed the existence check: one
\* row was inserted and the other insert was refused
C13_Witness ==
    \E p, q \in Procs :
        /\ p # q
        /\ call[p].op = "like_addon" /\ call[q].op = "like_addon"
        /\ call[p].user = call[q].user /\ call[p].addon_uuid = call[q].addon_uuid
        /\ pc[p] = "like_refresh" /\ "inserted" \in io[p]
        /\ pc[q] = "like_rollback" /\ "inserted" \notin io[q]
        /\ Cardinality(existing_like(call[p].user, call[p].addon_uuid)) = 1

AlreadyLiked == Response(HTTP_400_BAD_REQUEST, "You've already given this addon a like.")

NeverLiked == Response(HTTP_400_BAD_REQUEST, "You didn't give this addon a like.")

\* C14: a like_addon request for a pair another request already liked ends
\* with the conflict error and leaves the likes as they were, also when the
\* other like was committed after this request's existence check
C14_SecondLikeConflicts ==
    [][\A p \in Procs :
         (call[p].op = "like_addon" /\ Ends(p) /\ "inserted" \notin io[p]
            /\ existing_like(call[p].user, call[p].addon_uuid) # {})
            => /\ resp'[p] = AlreadyLiked
               /\ likes' = likes]_vars

\* C15: unlike_addon for a pair without a like ends with the 400 of a missing
\* like and changes nothing; when it ends with 204 the pair has no like
C15_UnlikeRemovesLike ==
    [][\A p \in Procs :
         (call[p].op = "unlike_addon" /\ Ends(p))
            => /\ existing_like(call[p].user, call[p].addon_uuid) = {}
                  => (resp'[p] = NeverLiked /\ likes' = likes)
               /\ resp'[p].status = HTTP_204_NO_CONTENT
                  => existing_like(call[p].user, call[p].addon_uuid)' = {}]_vars

\* the users who like add-on a: they liked it and did not unlike it since
LikingUsers(a) == {u \in Users : <<u, a>> \in liked}

\* C16: the like count that get_addon_likes_count, get_addon and get_addons
\* report for an add-on is the number of users who like it when the query
\* executes, and get_addons lists every add-on, those without likes with 0
C16_CountIsLikingUsers ==
    [][\A p \in Procs :
         (Ends(p) /\ resp'[p].status = HTTP_200_OK
            /\ call[p].op \in {"get_addon_likes_count", "get_addon", "get_addons"})
            => /\ \A i \in DOMAIN qres'[p].items :
                    qres'[p].items[i].likes_count
                        = Cardinality(LikingUsers(qres'[p].items[i].uuid))
               /\ call[p].op = "get_addons"
                    => {qres'[p].items[i].uuid : i \in DOMAIN qres'[p].items} = DOMAIN addons]_vars

\* C17: when delete_addon answers 204 the add-on row is gone, and with it the
\* Version rows and the UserLike rows of the add-on
C17_DeleteAddonCascades ==
    [][(pc[SeqProc] = "idle" /\ nreq' # nreq /\ call'[SeqProc].op = "delete_addon"
          /\ resp'[SeqProc].status = HTTP_204_NO_CONTENT)
          => /\ call'[SeqProc].addon_uuid \notin DOMAIN addons'
             /\ \A v \in versions' : v.addon_uuid # call'[SeqProc].addon_uuid
             /\ \A l \in likes' : l.addon_uuid # call'[SeqProc].addon_uuid]_vars

\* C18: the download counter of an add-on is never negative and never
\* decreases from one committed state to the next
C18_DownloadsMonotonic ==
    [][\A a \in DOMAIN addon_cols :
         /\ addon_cols[a].downloads >= 0
         /\ a \in DOMAIN addon_cols' => addon_cols'[a].downloads >= addon_cols[a].downloads]_vars

\* term occurs in value as a run of characters, ignoring case
Substring(term, value) ==
    \E i \in 1..(Len(value) - Len(term) + 1) :
        lower(SubSeq(value, i, i + Len(term) - 1)) = lower(term)

\* the sum over the matching (term, field) pairs of the weights 3, 2 and 1
RECURSIVE SubstringScore(_, _)
SubstringScore(row, terms) ==
    IF terms = <<>> THEN 0
    ELSE (IF Substring(Head(terms), row.name) THEN 3 ELSE 0)
         + (IF Substring(Head(terms), row.short_description) THEN 2 ELSE 0)
         + (IF Substring(Head(terms), row.description) THEN 1 ELSE 0)
         + SubstringScore(row, Tail(terms))

\* the add-ons that pass the type and owner filters and have a field that
\* contains a term of the search
Matching(q) ==
    {a \in DOMAIN addons :
        /\ q.type # None => addon_cols[a].type = q.type
        /\ q.user_uuid # None => addons[a] = q.user_uuid
        /\ \E i \in DOMAIN search_terms(q.search) :
             \/ Substring(search_terms(q.search)[i], addon_cols[a].name)
             \/ Substring(search_terms(q.search)[i], addon_cols[a].short_description)
             \/ Substring(search_terms(q.search)[i], addon_cols[a].description)}

\* the get_addons request of p was answered
Answered(p) == ~Busy(p) /\ call[p].op = "get_addons" /\ resp[p] # NoResp

\* C19: a get_addons request with a search string returns the add-ons that
\* pass the filters and contain a term in their name, short description or
\* description, and no other; the score of a returned row is the sum of the
\* weights of its matching (term, field) pairs
C19_SearchIsSubstringMatch ==
    \A p \in Procs :
        (Answered(p) /\ resp[p].status = HTTP_200_OK /\ call[p].data.search # <<>>)
            => LET q == call[p].data
                   items == qres[p].items
               IN /\ qres[p].total_count = Cardinality(Matching(q))
                  /\ \A i \in DOMAIN items :
                       /\ items[i].uuid \in Matching(q)
                       /\ items[i].relevance_score
                            = <<SubstringScore(addon_cols[items[i].uuid], search_terms(q.search))>>
                  /\ (q.page = 1 /\ q.per_page = 10)
                       => {items[i].uuid : i \in DOMAIN items} = Matching(q)

\* the order of the characters of the names
CharRank(c) ==
    CASE c = "A" -> 1 [] c = "B" -> 2 [] c = "a" -> 3 [] c = "b" -> 4 [] OTHER -> 0

\* name s does not come after name t
NameLeq(s, t) ==
    \/ s = t
    \/ \E i \in 1..Len(s) :
         /\ i <= Len(t)
         /\ \A j \in 1..(i - 1) : s[j] = t[j]
         /\ CharRank(s[i]) < CharRank(t[i])

\* add-on a does not come after add-on b in the ascending order of the field
FieldLeq(a, b, q) ==
    CASE q.sort_by = "name" -> NameLeq(addon_cols[a].name, addon_cols[b].name)
      [] q.sort_by = "publish_date" -> addon_cols[a].publish_date <= addon_cols[b].publish_date
      [] q.sort_by = "update_date" -> addon_cols[a].update_date <= addon_cols[b].update_date
      [] q.sort_by = "downloads" -> addon_cols[a].downloads <= addon_cols[b].downloads
      [] q.sort_by = "likes_count" ->
            Cardinality({l \in likes : l.addon_uuid = a})
                <= Cardinality({l \in likes : l.addon_uuid = b})
      [] q.sort_by = "relevance" ->
            SubstringScore(addon_cols[a], search_terms(q.search))
                <= SubstringScore(addon_cols[b], search_terms(q.search))

\* C20: get_addons answers a request that sorts by name, publish_date,
\* update_date, downloads or likes_count, or by relevance with a search
\* string, without an error, and the rows it returns are in the order of the
\* field
C20_SortFieldsAccepted ==
    \A p \in Procs :
        (Answered(p)
            /\ (call[p].data.sort_by = "relevance" => call[p].data.search # <<>>))
            => LET q == call[p].data
                   items == qres[p].items
               IN /\ resp[p].status = HTTP_200_OK
                  /\ \A i, j \in DOMAIN items :
                       i < j => IF q.sort_by = "relevance" \/ q.sort_order = "desc"
                                THEN FieldLeq(items[j].uuid, items[i].uuid, q)
                                ELSE FieldLeq(items[i].uuid, items[j].uuid, q)

\* the value of the sort field that a returned row shows
ShownKey(it, q) ==
    CASE q.sort_by = "publish_date" -> addon_cols[it.uuid].publish_date
      [] q.sort_by = "update_date" -> addon_cols[it.uuid].update_date
      [] q.sort_by = "downloads" -> addon_cols[it.uuid].downloads
      [] q.sort_by = "likes_count" -> it.likes_count
      [] q.sort_by = "relevance" ->
            IF it.relevance_score = <<>> THEN 0 ELSE it.relevance_score[1]
      [] OTHER -> 0

\* the items are in ascending order of the sort field
Ascending(items, q) ==
    \A i, j \in DOMAIN items : i < j => ShownKey(items[i], q) <= ShownKey(items[j], q)

\* the items are in descending order of the sort field
Descending(items, q) ==
    \A i, j \in DOMAIN items : i < j => ShownKey(items[i], q) >= ShownKey(items[j], q)

\* C21 as stated: the rows of every successful answer, relevance included,
\* ascend with sort_order=asc and descend with sort_order=desc
C21_OrderFollowsSortOrder ==
    \A p \in Procs :
        (Answered(p) /\ resp[p].status = HTTP_200_OK)
            => IF call[p].data.sort_order = "asc"
               THEN Ascending(qres[p].items, call[p].data)
               ELSE Descending(qres[p].items, call[p].data)

\* C21: for every accepted sort field other than relevance the rows ascend
\* with sort_order=asc and descend with sort_order=desc; with sort_by=relevance
\* the rows descend by score whatever sort_order is
C21_OrderFollowsSortOrderButRelevance ==
    \A p \in Procs :
        (Answered(p) /\ resp[p].status = HTTP_200_OK)
            => IF call[p].data.sort_order = "asc" /\ call[p].data.sort_by # "relevance"
               THEN Ascending(qres[p].items, call[p].data)
               ELSE Descending(qres[p].items, call[p].data)

\* an ascending answer of two rows with different keys, and a relevance answer
\* of two rows with different scores were given
C21_Witness ==
    \E p \in Procs :
        /\ Answered(p) /\ resp[p].status = HTTP_200_OK
        /\ call[p].data.sort_order = "asc"
        /\ Len(qres[p].items) = 2
        /\ ShownKey(qres[p].items[1], call[p].data) # ShownKey(qres[p].items[2], call[p].data)
        /\ call[p].data.sort_by \in {"downloads", "relevance"}

\* C22: a get_addons request that sorts by relevance without a search string
\* is answered 400 with the relevance-needs-a-search detail and gets no result
\* set; an answer that sorted by relevance belongs to a request with a search
\* string
C22_RelevanceNeedsSearch ==
    \A p \in Procs :
        (Answered(p) /\ call[p].data.sort_by = "relevance")
            => /\ call[p].data.search = <<>>
                    => /\ resp[p] = Response(HTTP_400_BAD_REQUEST,
                                     "Sorting by relevance is only allowed with a search query.")
                       /\ qres[p] = NoRes
               /\ resp[p].status = HTTP_200_OK => call[p].data.search # <<>>

\* a request that sorts by relevance without a search string was refused
C22_Witness ==
    \E p \in Procs :
        /\ Answered(p)
        /\ call[p].data.sort_by = "relevance" /\ call[p].data.search = <<>>
        /\ resp[p].status = HTTP_400_BAD_REQUEST

\* C23: the total_count of a successful get_addons answer is the number of
\* add-ons that pass the type, owner and search filters of the request,
\* whatever page and per_page are; a page that holds every row has exactly
\* total_count items
C23_TotalCountIsFilteredCount ==
    \A p \in Procs :
        (Answered(p) /\ resp[p].status = HTTP_200_OK)
            => LET q == call[p].data IN
               /\ \A page \in {1, 2}, per_page \in {1, 10} :
                    qres[p].total_count
                        = Cardinality(filtered([q EXCEPT !.page = page, !.per_page = per_page]))
               /\ (q.page = 1 /\ q.per_page = 10)
                    => Len(qres[p].items) = qres[p].total_count

\* the second page of one row of a search that two add-ons pass was answered
\* with a total_count of two
C23_Witness ==
    \E p \in Procs :
        /\ Answered(p) /\ resp[p].status = HTTP_200_OK
        /\ call[p].data.page = 2 /\ call[p].data.per_page = 1
        /\ call[p].data.search = <<"a", "b">>
        /\ qres[p].total_count = 2 /\ Len(qres[p].items) = 1

\* the number of rows of a set of n rows that fall on the page of q
RowsOnPage(n, q) ==
    LET first == (q.page - 1) * q.per_page
    IN IF n <= first THEN 0
       ELSE IF n - first < q.per_page THEN n - first ELSE q.per_page

\* C24: a get_addons request with a sort field the handler accepts is answered
\* with success, and its items are the rows at positions
\* (page-1)*per_page+1 .. page*per_page of an ordering of the filtered set by
\* the sort field: at most per_page rows, and none when the page lies beyond
\* the last row
C24_PageIsWindowOfSortedSet ==
    \A p \in Procs :
        (Answered(p)
            /\ \/ call[p].data.sort_by \in {"publish_date", "update_date", "downloads", "likes_count"}
               \/ call[p].data.sort_by = "relevance" /\ search_terms(call[p].data.search) # <<>>)
            => LET q == call[p].data
                   items == qres[p].items
                   first == (q.page - 1) * q.per_page
               IN /\ resp[p].status = HTTP_200_OK
                  /\ Len(items) <= q.per_page
                  /\ \E f \in orderings(filtered(q), q) :
                       /\ Len(items) = RowsOnPage(Len(f), q)
                       /\ \A i \in DOMAIN items : items[i].uuid = f[first + i]

\* the second page of one row held the add-on with fewer downloads of two
C24_Witness ==
    \E p \in Procs :
        /\ Answered(p) /\ resp[p].status = HTTP_200_OK
        /\ call[p].data.page = 2 /\ call[p].data.per_page = 1
        /\ call[p].data.sort_by = "downloads" /\ call[p].data.sort_order = "desc"
        /\ qres[p].total_count = 2
        /\ Len(qres[p].items) = 1
        /\ qres[p].items[1].uuid = "a2" /\ addon_cols["a1"].downloads = 1

\* p's upload has ended with a failed insert and q's with a 201, and the two
\* sent the same bytes under file names with the same extension
FailedBesideCreated(p, q) ==
    /\ p # q
    /\ ~Busy(p) /\ ~Busy(q)
    /\ req[p].file.content = req[q].file.content
    /\ file_extension(req[p].file) = file_extension(req[q].file)
    /\ "commit_failed" \in io[p]
    /\ Created(resp[q])

\* C27: once two concurrent uploads of the same bytes and extension have both
\* ended, one with a failed insert and the other with its Version row
\* committed, the file the committed row refers to exists
C27_CleanupKeepsCommittedFile ==
    \A p, q \in Procs :
        FailedBesideCreated(p, q)
            => \A v \in versions :
                  v.uuid = newv[q] => exists(PathOfUrl(v.download_url))

\* p's create_addon request inserted its row, or its update_addon request
\* wrote a changed row, in an earlier step
WroteAddon(p) ==
    \/ pc[p] = "create_refresh"
    \/ /\ pc[p] = "update_reselect"
       /\ flushed(call[p].db, call[p].data, call[p].db) # call[p].db

\* C28: a create_addon or update_addon request that has created or modified
\* its add-on ends with the success response (201 or 200) and never with an
\* error response
C28_ErrorMeansNothingWritten ==
    [][\A p \in Procs :
         (Ends(p) /\ WroteAddon(p))
            => resp'[p].status \in {HTTP_200_OK, HTTP_201_CREATED}]_vars

\* C29: every increment_download_count request that commits leaves the
\* download counter of its add-on one higher than it was before the commit,
\* whatever the other requests did in between, so N completed requests raise
\* the counter by N
C29_EveryDownloadCounts ==
    [][\A d \in DlProcs :
         (dl[d].pc = "commit" /\ dl'[d].pc = "refresh")
            => addon_cols'[dl[d].addon_uuid].downloads
                  = addon_cols[dl[d].addon_uuid].downloads + 1]_vars

\* C25: a register request whose e-mail or user name belongs to a user when
\* the handler looks it up is answered 400 with the detail that names the
\* duplicate, and creates no user
C25_DuplicateIsClientError ==
    [][\A p \in Procs :
         /\ (pc[p] = "idle" /\ nreq' # nreq /\ call'[p].op = "register"
                /\ \E u \in users : u.email = call'[p].data.email)
              => /\ resp'[p] = Response(HTTP_400_BAD_REQUEST, "Email already registered")
                 /\ users' = users
         /\ (pc[p] = "register_username" /\ pc'[p] # pc[p]
                /\ \E u \in users : u.username = call[p].data.username)
              => /\ resp'[p] = Response(HTTP_400_BAD_REQUEST, "Username already registered")
                 /\ users' = users]_vars

\* C26: a request to logout or me that presents a token for which a logout
\* was answered 200 before is answered 401
C26_LoggedOutTokenRejected ==
    [][\A p \in Procs :
         (pc[p] = "idle" /\ nreq' # nreq
            /\ call'[p].op \in {"logout", "get_current_user"}
            /\ call'[p].data \in jwt.logged_out)
            => resp'[p] = Response(HTTP_401_UNAUTHORIZED, "Not authenticated")]_vars

\* the get_user_liked_addons request of p for an existing user was answered
LikedAnswered(p) ==
    /\ ~Busy(p) /\ resp[p] # NoResp
    /\ call[p].op = "get_user_liked_addons"
    /\ \E u \in users : u.uuid = call[p].data.user_uuid

\* C30: a get_user_liked_addons request for an existing user is answered with
\* the list of the add-ons the user likes, and the likes_count of every row of
\* the list is the number of users who like the add-on
C30_LikedListHasTotalCounts ==
    \A p \in Procs :
        LikedAnswered(p)
           => /\ resp[p].status = HTTP_200_OK
              /\ \A i \in DOMAIN call[p].db :
                    call[p].db[i].likes_count
                        = Cardinality({l \in likes : l.addon_uuid = call[p].db[i].uuid})
              /\ qres[p].items = call[p].db

====
